---- MODULE Spec2Model ----
(***************************************************************************)
(* A model of the provider-abstraction / streaming-response layer of the   *)
(* chat UI: the error classifier and the retry orchestrator                *)
(* (lib/error-handler.ts), the streaming chat route (app/api/chat/route.ts)*)
(* with its two stream consumers (components/chat/chat-interface.tsx, in   *)
(* its SSE and its "0:" line variants), and the model catalog              *)
(* (lib/adapters/litellm-adapter.ts, the /api/models route, lib/store.ts). *)
(*                                                                         *)
(* Three specifications share the variables; each one moves the variables  *)
(* of one subsystem and leaves the others in their initial state:          *)
(*   SpecRetry    retryWithBackoff driving a function fn                   *)
(*   SpecStream   POST /api/chat producing a stream, handleSubmit reading  *)
(*   SpecCatalog  concurrent /api/models handlers over the adapter cache,  *)
(*                and the browser store's fetchModels / refreshModels      *)
(***************************************************************************)
EXTENDS Integers, Sequences, FiniteSets, TLC

VARIABLES
    \* ---- retryWithBackoff (lib/error-handler.ts) ----
    maxRetries,     \* options.maxRetries
    initialDelay,   \* options.initialDelay
    maxDelay,       \* options.maxDelay
    hasOnRetry,     \* whether options.onRetry was given
    rpc,            \* position of retryWithBackoff
    attempt,        \* the loop variable
    lastError,      \* the local lastError
    retryResult,    \* what the returned promise settled with
    fnLog,          \* history: the outcome of each call of fn, in order
    onRetryLog,     \* history: the (attempt, error) arguments of each onRetry call
    waits,          \* history: the delay of each setTimeout wait
    \* ---- POST /api/chat (app/api/chat/route.ts) and handleSubmit ----
    variant,        \* "sse": chat-interface.tsx reading route.ts's data: frames;
                    \* "lines": the consumer that reads "0:" lines
    request,        \* the request body and the server's credentials
    providerStream, \* the chunks the provider's stream has still to yield
    yielded,        \* history: the chunks the provider's stream has yielded
    spc,            \* position of the route's stream producer
    status,         \* HTTP status of the response (0: none yet)
    wire,           \* bytes enqueued on the response stream and not yet read
    closed,         \* controller.close() was called
    sentDeltas,     \* history: the text of each content frame enqueued
    sentFrames,     \* history: the kind of each frame enqueued
    routeError,     \* history: the error the provider call threw, if any
    cpc,            \* position of handleSubmit
    assistantMessage, \* the local accumulator
    chatMessages,   \* the messages of the chat, each [role, content]
    assistantMessageId, \* index in chatMessages of the streamed message (0: null)
    updates,        \* history: the content argument of each updateMessage call
    delivered,      \* history: all bytes reader.read() has returned
    cutMidLine,     \* history: some read returned a chunk ending inside a line
    clientError,    \* history: the error handleSubmit caught, if any
    abandoned,      \* the user asked to stop or left while the stream was read
    \* ---- the model catalog (litellm-adapter.ts, /api/models, store.ts) ----
    enabled,        \* LiteLLMConfig.enabled (LITELLM_ENABLED === "true")
    clock,          \* the time in milliseconds: Date.now()
    ticks,          \* the number of times the clock has advanced
    cachedModels,   \* LiteLLMAdapterImpl.cachedModels (Null or a list)
    cacheTimestamp, \* LiteLLMAdapterImpl.cacheTimestamp
    handlers,       \* the /api/models requests being served, one per slot
    availableModels, \* the store's availableModels
    modelsLoading,  \* the store's modelsLoading
    modelsError,    \* the store's modelsError
    newestFetch,    \* history: the latest start time of the gateway fetches
                    \* that succeeded since the cache was last cleared (-1:
                    \* none)
    lastGoodList,   \* history: the list of the latest successful gateway
                    \* fetch since the cache was last cleared (Null: none)
    lastFetched,    \* history: the list of the latest successful gateway
                    \* fetch, kept when the cache is cleared (Null: none)
    \* ---- parseAPIError called on its own (lib/error-handler.ts) ----
    thrownValue,    \* the value parseAPIError is called with
    apiError,       \* what parseAPIError returned (code "PENDING": not yet)
    \* ---- GET /api/models on any answer of the gateway ----
    gatewayData,    \* the data array of the gateway's answer
    uniqueModels,   \* the list GET answered with (empty: not yet)
    \* ---- the read loop of a consumer on any lines ----
    frameVariant,   \* which consumer reads: "sse" or "lines"
    framesLeft,     \* the lines of the stream not yet read
    framesRead,     \* history: the lines read so far
    reassembled,    \* the consumer's accumulator, message content and updates
    \* ---- the chat store and the chat view (lib/store.ts, part_004) ----
    chats,          \* the chats of the store, newest first
    currentChatId,  \* the id of the current chat (0: null)
    nextId,         \* the ids generateId has handed out so far
    isLoading,      \* the view's isLoading flag
    submitReq,      \* the running handleSubmit call
    regenReq,       \* the running handleRegenerateResponse call
    \* ---- HTTPClient.request (lib/litellm/http-client.ts) ----
    hpc,            \* where the call is: "idle", "fetching", "body",
                    \* "resolved", "rejected"
    hasSignal,      \* the caller passed its own AbortSignal in the options
    timeout,        \* the timeout of the call, in ms
    elapsed,        \* the time since the call started, in ms
    timerArmed,     \* the setTimeout of the timeout is pending
    aborted,        \* controller.abort() has been called
    deadlinePassed, \* history: the timeout elapsed before the call completed
    httpResult      \* what the call resolved or rejected with

retryVars == <<maxRetries, initialDelay, maxDelay, hasOnRetry, rpc, attempt,
               lastError, retryResult, fnLog, onRetryLog, waits>>

streamVars == <<variant, request, providerStream, yielded, spc, status, wire, closed,
                sentDeltas, sentFrames, routeError, cpc, assistantMessage,
                chatMessages, assistantMessageId, updates, delivered,
                cutMidLine, clientError, abandoned>>

catalogVars == <<enabled, clock, ticks, cachedModels, cacheTimestamp, handlers,
                 availableModels, modelsLoading, modelsError, newestFetch,
                 lastGoodList, lastFetched>>

classifyVars == <<thrownValue, apiError>>

mergeVars == <<gatewayData, uniqueModels>>

frameVars == <<frameVariant, framesLeft, framesRead, reassembled>>

chatVars == <<chats, currentChatId, nextId, isLoading, submitReq, regenReq>>

httpVars == <<hpc, hasSignal, timeout, elapsed, timerArmed, aborted,
             deadlinePassed, httpResult>>

nonRetryVars == <<streamVars, catalogVars, classifyVars, mergeVars, frameVars,
                  chatVars, httpVars>>

nonStreamVars == <<retryVars, catalogVars, classifyVars, mergeVars, frameVars,
                  chatVars, httpVars>>

nonCatalogVars == <<retryVars, streamVars, classifyVars, mergeVars, frameVars,
                  chatVars, httpVars>>

nonClassifyVars == <<retryVars, streamVars, catalogVars, mergeVars, frameVars,
                  chatVars, httpVars>>

nonMergeVars == <<retryVars, streamVars, catalogVars, classifyVars, frameVars,
                  chatVars, httpVars>>

nonFrameVars == <<retryVars, streamVars, catalogVars, classifyVars, mergeVars,
                  chatVars, httpVars>>

nonChatVars == <<retryVars, streamVars, catalogVars, classifyVars, mergeVars,
                 frameVars, httpVars>>

nonHttpVars == <<retryVars, streamVars, catalogVars, classifyVars, mergeVars,
                 frameVars, chatVars>>

vars == <<retryVars, streamVars, catalogVars, classifyVars, mergeVars,
          frameVars, chatVars, httpVars>>

(***************************************************************************)
(* Bounds of the model.                                                    *)
(***************************************************************************)
MaxRetriesBound == 3
\* The number of chunks a provider stream yields at most.
MaxChunks == 2
\* The number of /api/models requests served at the same time.
NHandlers == 2
\* The number of times the clock advances at most.
MaxTicks == 3
\* The number of words of an error message at most.
MaxWords == 2
\* The number of models in an answer of the gateway at most.
MaxGatewayModels == 3
\* The number of lines of a stream read on its own at most.
MaxLines == 3

(***************************************************************************)
(* parseAPIError.  A message is a sequence of words; a word is one of the  *)
(* keyword phrases the classifier looks for, in lower case or capitalised, *)
(* or a word that matches no rule.  includes() is containment of a phrase  *)
(* among the lower-cased words.                                            *)
(***************************************************************************)
LowerOf ==
    [w \in {"Fetch", "Network", "API key", "Unauthorized", "Rate limit",
            "Too Many Requests", "Model", "Not Found", "Timeout", "Timed out",
            "Server Error", "Context", "Token", "Too long", "Oops"} |->
        CASE w = "Fetch" -> "fetch"
          [] w = "Network" -> "network"
          [] w = "API key" -> "api key"
          [] w = "Unauthorized" -> "unauthorized"
          [] w = "Rate limit" -> "rate limit"
          [] w = "Too Many Requests" -> "too many requests"
          [] w = "Model" -> "model"
          [] w = "Not Found" -> "not found"
          [] w = "Timeout" -> "timeout"
          [] w = "Timed out" -> "timed out"
          [] w = "Server Error" -> "server error"
          [] w = "Context" -> "context"
          [] w = "Token" -> "token"
          [] w = "Too long" -> "too long"
          [] w = "Oops" -> "oops"]

\* Mutant: the message is matched as it is, without lower-casing.
toLowerCaseIdentity(message) == message

toLowerCase(message) ==
    [i \in 1..Len(message) |->
        IF message[i] \in DOMAIN LowerOf THEN LowerOf[message[i]] ELSE message[i]]

includes(message, phrase) == \E i \in 1..Len(message) : message[i] = phrase

\* Mutant: the default result is not retryable.
defaultErrorNotRetryable ==
    [message |-> <<"An unexpected error occurred">>, code |-> "NONE",
     retryable |-> FALSE]

defaultError ==
    [message |-> <<"An unexpected error occurred">>, code |-> "NONE",
     retryable |-> TRUE]

\* An error value: id is the identity of the thrown object, isError says
\* whether it is an instance of Error, message is its message.
parseAPIError(error) ==
    IF ~error.isError THEN defaultError
    ELSE LET errorMessage == toLowerCase(error.message) IN
      IF includes(errorMessage, "fetch") \/ includes(errorMessage, "network")
      THEN [message |-> <<"Network connection error">>, code |-> "NETWORK_ERROR",
            retryable |-> TRUE]
      ELSE IF includes(errorMessage, "api key") \/ includes(errorMessage, "unauthorized")
              \/ includes(errorMessage, "401")
      THEN [message |-> <<"Invalid or missing API key">>, code |-> "AUTH_ERROR",
            retryable |-> FALSE]
      ELSE IF includes(errorMessage, "rate limit") \/ includes(errorMessage, "429")
              \/ includes(errorMessage, "too many requests")
      THEN [message |-> <<"Rate limit exceeded">>, code |-> "RATE_LIMIT",
            retryable |-> TRUE]
      ELSE IF includes(errorMessage, "model") \/ includes(errorMessage, "404")
              \/ includes(errorMessage, "not found")
      THEN [message |-> <<"Model not found or unavailable">>, code |-> "MODEL_ERROR",
            retryable |-> FALSE]
      ELSE IF includes(errorMessage, "timeout") \/ includes(errorMessage, "timed out")
      THEN [message |-> <<"Request timed out">>, code |-> "TIMEOUT",
            retryable |-> TRUE]
      ELSE IF includes(errorMessage, "500") \/ includes(errorMessage, "server error")
      THEN [message |-> <<"Server error">>, code |-> "SERVER_ERROR",
            retryable |-> TRUE]
      ELSE IF includes(errorMessage, "context") \/ includes(errorMessage, "token")
              \/ includes(errorMessage, "too long")
      THEN [message |-> <<"Message too long">>, code |-> "CONTEXT_LENGTH",
            retryable |-> FALSE]
      ELSE [message |-> IF error.message # <<>> THEN error.message
                        ELSE defaultError.message,
            code |-> "NONE", retryable |-> TRUE]

(***************************************************************************)
(* retryWithBackoff.                                                       *)
(***************************************************************************)
NoError == [id |-> 0, isError |-> FALSE, message |-> <<>>]

\* parseAPIError has not returned.
NotParsed == [message |-> <<>>, code |-> "PENDING", retryable |-> FALSE]

\* parseAPIError is not being called.
ClassifyAtRest == thrownValue = NoError /\ apiError = NotParsed

\* GET /api/models is not being applied to an answer on its own.
MergeAtRest == gatewayData = <<>> /\ uniqueModels = <<>>

\* The accumulator, message content and updates before the read loop.
NothingRead == [acc |-> <<>>, content |-> <<>>, updates |-> <<>>]

\* No read loop is running on lines of its own.
FramesAtRest ==
    /\ frameVariant = "sse" /\ framesLeft = <<>> /\ framesRead = <<>>
    /\ reassembled = NothingRead

\* A handleSubmit or handleRegenerateResponse call that is not running.
\* chatId and provider are the values its closure holds, own is the id
\* addMessage gave the empty assistant message of the call (history).
NoRequest ==
    [pc |-> "idle", chatId |-> 0, provider |-> "none", assistantMessageId |-> 0,
     assistantMessage |-> <<>>, own |-> 0, left |-> 0]

\* The store as created: no chat, no current chat.
ChatsAtRest ==
    /\ chats = <<>> /\ currentChatId = 0 /\ nextId = 0 /\ isLoading = FALSE
    /\ submitReq = NoRequest /\ regenReq = NoRequest

\* No result of HTTPClient.request yet.
NoResult == [kind |-> "pending", code |-> "NONE", retryable |-> FALSE]

\* HTTPClient.request is not being called.
HttpIdle ==
    /\ hpc = "idle" /\ elapsed = 0 /\ timerArmed = FALSE /\ aborted = FALSE
    /\ deadlinePassed = FALSE /\ httpResult = NoResult

\* constructor(baseURL, masterKey, defaultTimeout = 30000)
defaultTimeout == 30000

HttpAtRest == hasSignal = FALSE /\ timeout = defaultTimeout /\ HttpIdle

\* The messages fn's errors carry in this model: one per classifier rule a
\* thrown error can reach, in either letter case, and a thrown non-Error.
FnMessages ==
    { <<"Failed to", "Fetch">>, <<"401">>, <<"429">>, <<"Model", "overloaded">>,
      <<"request", "timed out">>, <<"500">>, <<"Context", "exceeded">>, <<"oops">> }

\* What one call of fn can do: resolve with a value, or reject with a fresh
\* error object (its id is the number of the call that threw it).
FnOutcomes(callNo) ==
    { [ok |-> TRUE, value |-> callNo, error |-> NoError] }
    \cup { [ok |-> FALSE, value |-> 0,
            error |-> [id |-> callNo, isError |-> TRUE, message |-> m]] :
           m \in FnMessages }
    \cup { [ok |-> FALSE, value |-> 0,
            error |-> [id |-> callNo, isError |-> FALSE, message |-> <<>>]] }

RECURSIVE Pow2(_)
Pow2(n) == IF n = 0 THEN 1 ELSE 2 * Pow2(n - 1)

Min(a, b) == IF a <= b THEN a ELSE b

\* Mutant: the delay grows linearly, initialDelay * (attempt + 1).
BackoffDelayLinear(a) == Min(initialDelay * (a + 1), maxDelay)

\* Math.min(initialDelay * Math.pow(2, attempt), maxDelay)
BackoffDelay(a) == Min(initialDelay * Pow2(a), maxDelay)

RetryIdle ==
    /\ rpc = "start" /\ attempt = 0 /\ lastError = NoError
    /\ retryResult = [kind |-> "pending", value |-> 0, error |-> NoError]
    /\ fnLog = <<>> /\ onRetryLog = <<>> /\ waits = <<>>

(***************************************************************************)
(* Text.  A text is a sequence of characters (strings of length one); the  *)
(* text of an error message is a single element standing for its words.    *)
(***************************************************************************)
NL == "\n"
QUOTE == "\""
BACKSLASH == "\\"

RECURSIVE Concat(_)
\* The concatenation of a sequence of texts.
Concat(texts) == IF texts = <<>> THEN <<>> ELSE Head(texts) \o Concat(Tail(texts))

\* String.prototype.startsWith
startsWith(text, prefix) ==
    /\ Len(text) >= Len(prefix)
    /\ SubSeq(text, 1, Len(prefix)) = prefix

\* String.prototype.slice(n)
slice(text, n) == SubSeq(text, n + 1, Len(text))

RECURSIVE split(_)
\* String.prototype.split("\n"): the pieces between the newlines, the empty
\* ones included (k newlines give k + 1 pieces).
split(text) ==
    IF \A i \in 1..Len(text) : text[i] # NL
    THEN <<text>>
    ELSE LET i == CHOOSE j \in 1..Len(text) :
                      text[j] = NL /\ \A k \in 1..(j - 1) : text[k] # NL
         IN <<SubSeq(text, 1, i - 1)>> \o split(slice(text, i))

RECURSIVE escapeJSON(_)
\* The body of a JSON string literal for a text (JSON.stringify's escapes of
\* the characters of this model).
escapeJSON(text) ==
    IF text = <<>> THEN <<>>
    ELSE (CASE Head(text) = NL -> <<BACKSLASH, "n">>
            [] Head(text) = QUOTE -> <<BACKSLASH, QUOTE>>
            [] Head(text) = BACKSLASH -> <<BACKSLASH, BACKSLASH>>
            [] OTHER -> <<Head(text)>>) \o escapeJSON(Tail(text))

RECURSIVE unescapeJSON(_)
\* The text of the body of a JSON string literal: [ok, text]; not ok when the
\* body holds a bare quote or newline or a broken escape.
unescapeJSON(body) ==
    IF body = <<>> THEN [ok |-> TRUE, text |-> <<>>]
    ELSE IF Head(body) = QUOTE \/ Head(body) = NL THEN [ok |-> FALSE, text |-> <<>>]
    ELSE IF Head(body) = BACKSLASH
    THEN IF Len(body) < 2 \/ body[2] \notin {"n", QUOTE, BACKSLASH}
         THEN [ok |-> FALSE, text |-> <<>>]
         ELSE LET rest == unescapeJSON(slice(body, 2))
                  c == IF body[2] = "n" THEN NL ELSE body[2]
              IN [ok |-> rest.ok, text |-> IF rest.ok THEN <<c>> \o rest.text ELSE <<>>]
    ELSE LET rest == unescapeJSON(Tail(body))
         IN [ok |-> rest.ok, text |-> IF rest.ok THEN <<Head(body)>> \o rest.text ELSE <<>>]

ContentOpen == <<"{", QUOTE, "c", "o", "n", "t", "e", "n", "t", QUOTE, ":", QUOTE>>
ErrorOpen == <<"{", QUOTE, "e", "r", "r", "o", "r", QUOTE, ":", QUOTE>>
ObjectClose == <<QUOTE, "}">>
DataPrefix == <<"d", "a", "t", "a", ":", " ">>
DoneData == <<"[", "D", "O", "N", "E", "]">>
LinePrefix == <<"0", ":">>

\* JSON.stringify({ content })
stringifyContent(text) == ContentOpen \o escapeJSON(text) \o ObjectClose

\* JSON.stringify({ error: error.message })
stringifyError(text) == ErrorOpen \o escapeJSON(text) \o ObjectClose

endsWith(text, suffix) ==
    /\ Len(text) >= Len(suffix)
    /\ SubSeq(text, Len(text) - Len(suffix) + 1, Len(text)) = suffix

\* The object between an opening and the closing of the two frame shapes.
ObjectBody(data, open) == SubSeq(data, Len(open) + 1, Len(data) - Len(ObjectClose))

\* JSON.parse(data) on the texts a response of the route can hold: the two
\* object shapes the route writes parse, every other text (a truncated or
\* broken frame) throws.  [ok, content]: content is json.content, <<>> when
\* the object has no content field.
parseJSON(data) ==
    IF /\ startsWith(data, ContentOpen) /\ endsWith(data, ObjectClose)
       /\ Len(data) >= Len(ContentOpen) + Len(ObjectClose)
       /\ unescapeJSON(ObjectBody(data, ContentOpen)).ok
    THEN [ok |-> TRUE, content |-> unescapeJSON(ObjectBody(data, ContentOpen)).text]
    ELSE IF /\ startsWith(data, ErrorOpen) /\ endsWith(data, ObjectClose)
            /\ Len(data) >= Len(ErrorOpen) + Len(ObjectClose)
            /\ unescapeJSON(ObjectBody(data, ErrorOpen)).ok
    THEN [ok |-> TRUE, content |-> <<>>]
    ELSE [ok |-> FALSE, content |-> <<>>]

(***************************************************************************)
(* The frames of the response stream and the consumer's handling of them.  *)
(***************************************************************************)
\* controller.enqueue(encoder.encode(`data: ${JSON.stringify({ content })}\n\n`))
ContentFrame(text) == DataPrefix \o stringifyContent(text) \o <<NL, NL>>

\* controller.enqueue(encoder.encode(`data: ${JSON.stringify({ error })}\n\n`))
ErrorFrame(text) == DataPrefix \o stringifyError(text) \o <<NL, NL>>

\* controller.enqueue(encoder.encode("data: [DONE]\n\n"))
DoneFrame == DataPrefix \o DoneData \o <<NL, NL>>

\* A line of the gateway's line protocol: 0:<raw text delta>\n
LineFrame(text) == LinePrefix \o text \o <<NL>>

\* Mutant: the accumulator is assigned (=) instead of appended to (+=).
appendDeltaOverwrite(acc, data) == data

\* assistantMessage += data
appendDelta(acc, data) == acc \o data

\* The consumer's state while it reads: the accumulator, the content of the
\* streamed message and the updateMessage calls made.
\* updateMessage(chatId, assistantMessageId, assistantMessage), made only
\* when assistantMessageId is not null.
Updated(st, acc, hasId) ==
    [acc |-> acc,
     content |-> IF hasId THEN acc ELSE st.content,
     updates |-> IF hasId THEN Append(st.updates, acc) ELSE st.updates]

\* The body of "for (const line of lines)" of the consumer of data: frames.
ProcessDataLine(st, line, hasId) ==
    IF ~startsWith(line, DataPrefix) THEN st
    ELSE LET data == slice(line, Len(DataPrefix)) IN
         IF data = DoneData THEN st
         ELSE LET json == parseJSON(data) IN
              IF json.ok /\ json.content # <<>>
              THEN Updated(st, appendDelta(st.acc, json.content), hasId)
              ELSE st

\* Mutant: the consumer of 0: lines appends the rest of every line.
ProcessPrefixedLineAnyPrefix(st, line, hasId) ==
    Updated(st, appendDelta(st.acc, slice(line, Len(LinePrefix))), hasId)

\* The body of "for (const line of lines)" of the consumer of 0: lines.
ProcessPrefixedLine(st, line, hasId) ==
    IF ~startsWith(line, LinePrefix) THEN st
    ELSE Updated(st, appendDelta(st.acc, slice(line, Len(LinePrefix))), hasId)

ProcessLine(v, st, line, hasId) ==
    IF v = "sse" THEN ProcessDataLine(st, line, hasId)
    ELSE ProcessPrefixedLine(st, line, hasId)

RECURSIVE ProcessLines(_, _, _, _)
ProcessLines(v, st, lines, hasId) ==
    IF lines = <<>> THEN st
    ELSE ProcessLines(v, ProcessLine(v, st, Head(lines), hasId), Tail(lines), hasId)

\* One turn of the read loop on a chunk: decode, split on "\n", handle
\* each line.
ProcessChunk(v, st, chunk, hasId) == ProcessLines(v, st, split(chunk), hasId)

(***************************************************************************)
(* The inputs of a chat request.                                           *)
(***************************************************************************)
\* The text deltas a provider chunk can carry (none contains a newline on
\* the line protocol, whose deltas are the rest of a line).
Deltas(v) ==
    IF v = "sse" THEN { <<"H">>, <<QUOTE, NL>>, <<>> }
    ELSE { <<"H", "i">>, <<>> }

\* A chunk of the provider's stream: a text delta (OpenAI's
\* choices[0].delta.content, Anthropic's content_block_delta / text_delta),
\* a chunk of another type (message_stop, a chunk without content), or a
\* delta that is not text and has a payload of its own (Anthropic's
\* content_block_delta / input_json_delta, OpenAI's tool call delta).
ProviderChunks(v) ==
    { [type |-> "text", text |-> d] : d \in Deltas(v) }
    \cup { [type |-> "other", text |-> <<>>] }
    \cup (IF v = "sse" THEN { [type |-> "json", text |-> <<"H">>] } ELSE {})

\* Mutant: every chunk with a payload is taken as text.
CarriesTextAnyType(chunk) == chunk.text # <<>>

\* chunk.type === "content_block_delta" && chunk.delta.type === "text_delta"
\* and a text that is not empty (for OpenAI: a content that is not empty).
CarriesText(chunk) == chunk.type = "text" /\ chunk.text # <<>>

RECURSIVE SeqsUpTo(_, _)
\* The sequences over S of length at most n.
SeqsUpTo(S, n) ==
    IF n = 0 THEN { <<>> }
    ELSE LET shorter == SeqsUpTo(S, n - 1)
         IN shorter \cup { Append(q, x) : q \in shorter, x \in S }

\* The request bodies and server credentials of the model.
Requests ==
    { [messages |-> "some", provider |-> "openai", apiKey |-> TRUE],
      [messages |-> "some", provider |-> "anthropic", apiKey |-> TRUE],
      [messages |-> "some", provider |-> "openai", apiKey |-> FALSE],
      [messages |-> "some", provider |-> "anthropic", apiKey |-> FALSE],
      [messages |-> "some", provider |-> "litellm", apiKey |-> TRUE],
      [messages |-> "none", provider |-> "anthropic", apiKey |-> TRUE] }

StreamIdle ==
    /\ spc = "idle" /\ status = 0 /\ wire = <<>> /\ closed = FALSE
    /\ yielded = <<>> /\ abandoned = FALSE
    /\ sentDeltas = <<>> /\ sentFrames = <<>> /\ routeError = NoError
    /\ cpc = "idle" /\ assistantMessage = <<>> /\ chatMessages = <<>>
    /\ assistantMessageId = 0 /\ updates = <<>> /\ delivered = <<>>
    /\ cutMidLine = FALSE /\ clientError = NoError

\* The subsystems at rest, as the specifications of the other subsystems
\* hold them.
RetryAtRest ==
    /\ maxRetries = 3 /\ initialDelay = 1000 /\ maxDelay = 10000
    /\ hasOnRetry = FALSE /\ RetryIdle

StreamAtRest ==
    /\ variant = "sse"
    /\ request = [messages |-> "some", provider |-> "anthropic", apiKey |-> TRUE]
    /\ providerStream = <<>>
    /\ StreamIdle

(***************************************************************************)
(* The model catalog: the built-in list, the transformation of a gateway   *)
(* answer, and the merge of GET /api/models.                               *)
(***************************************************************************)
Null == "null"

\* A value that is null or a list of models.
NoModels == [isNull |-> TRUE, list |-> <<>>]

Some(list) == [isNull |-> FALSE, list |-> list]

\* AbortSignal.timeout(10000)
FETCH_TIMEOUT_MS == 10000

CACHE_DURATION_MS == 5 * 60 * 1000

AVAILABLE_MODELS ==
    << [id |-> "gpt-4-turbo-preview", name |-> "GPT-4 Turbo",
        provider |-> "openai", contextWindow |-> 128000],
       [id |-> "gpt-4", name |-> "GPT-4",
        provider |-> "openai", contextWindow |-> 8192],
       [id |-> "gpt-3.5-turbo", name |-> "GPT-3.5 Turbo",
        provider |-> "openai", contextWindow |-> 16385],
       [id |-> "claude-3-5-sonnet-20241022", name |-> "Claude 3.5 Sonnet",
        provider |-> "anthropic", contextWindow |-> 200000],
       [id |-> "claude-3-opus-20240229", name |-> "Claude 3 Opus",
        provider |-> "anthropic", contextWindow |-> 200000],
       [id |-> "claude-3-sonnet-20240229", name |-> "Claude 3 Sonnet",
        provider |-> "anthropic", contextWindow |-> 200000],
       [id |-> "claude-3-haiku-20240307", name |-> "Claude 3 Haiku",
        provider |-> "anthropic", contextWindow |-> 200000] >>

\* The data arrays a successful answer of the gateway's /v1/models can hold
\* in this model: none, and two models of which one has the id of a built-in
\* model.
GatewayAnswers ==
    { <<>>,
      << [id |-> "gpt-4", owned_by |-> "openai"],
         [id |-> "mistral-7b", owned_by |-> "mistralai"] >> }

\* generateModelName on the ids of the model.
generateModelName(modelId, ownedBy) ==
    CASE modelId = "gpt-4" -> "GPT-4"
      [] modelId = "llama-3-8b" -> "Llama 3"
      [] modelId = "mistral-7b" -> "Mistral"
      [] modelId = "mistral-large" -> "Mistral"

\* estimateContextWindow on the ids of the model.
estimateContextWindow(modelId) ==
    CASE modelId = "gpt-4" -> 8192
      [] modelId = "llama-3-8b" -> 4096
      [] modelId = "mistral-7b" -> 32000
      [] modelId = "mistral-large" -> 32000

transformModel(litellmModel) ==
    [id |-> litellmModel.id,
     name |-> generateModelName(litellmModel.id, litellmModel.owned_by),
     provider |-> "litellm",
     contextWindow |-> estimateContextWindow(litellmModel.id)]

\* data.data.map((model) => this.transformModel(model))
transformAll(data) == [i \in 1..Len(data) |-> transformModel(data[i])]

\* String.prototype.localeCompare on the provider and display names of the
\* model: the position of a string in their collation order.
CollationOrder ==
    << "anthropic", "Claude 3 Haiku", "Claude 3 Opus", "Claude 3 Sonnet",
       "Claude 3.5 Sonnet", "GPT-3.5 Turbo", "GPT-4", "GPT-4 Turbo",
       "litellm", "Llama 3", "Mistral", "openai" >>

Rank(str) == CHOOSE i \in 1..Len(CollationOrder) : CollationOrder[i] = str

localeCompare(a, b) ==
    IF Rank(a) < Rank(b) THEN -1 ELSE IF Rank(a) > Rank(b) THEN 1 ELSE 0

\* The comparator of uniqueModels.sort: by provider, then by name.
compareModels(a, b) ==
    IF a.provider # b.provider THEN localeCompare(a.provider, b.provider)
    ELSE localeCompare(a.name, b.name)

RECURSIVE insertSorted(_, _)
\* m inserted into a sorted list after the entries that do not compare
\* greater than it.
insertSorted(sorted, m) ==
    IF sorted = <<>> THEN <<m>>
    ELSE IF compareModels(Head(sorted), m) <= 0
    THEN <<Head(sorted)>> \o insertSorted(Tail(sorted), m)
    ELSE <<m>> \o sorted

RECURSIVE sortModels(_)
\* Array.prototype.sort with compareModels (a stable sort).
sortModels(list) ==
    IF list = <<>> THEN <<>>
    ELSE insertSorted(sortModels(SubSeq(list, 1, Len(list) - 1)), list[Len(list)])

\* Mutant: no entry is removed.
uniqueByIdKeepAll(allModels) == allModels

\* Array.from(new Map(allModels.map((model) => [model.id, model])).values()):
\* one entry per id, at the place of the id's first entry and with the value
\* of its last entry.
uniqueById(allModels) ==
    LET firsts == { i \in 1..Len(allModels) :
                      \A j \in 1..(i - 1) : allModels[j].id # allModels[i].id }
        lastOf(i) == CHOOSE j \in 1..Len(allModels) :
                        /\ allModels[j].id = allModels[i].id
                        /\ \A k \in (j + 1)..Len(allModels) :
                              allModels[k].id # allModels[i].id
        RECURSIVE pick(_)
        pick(i) == IF i > Len(allModels) THEN <<>>
                   ELSE IF i \in firsts THEN <<allModels[lastOf(i)]>> \o pick(i + 1)
                   ELSE pick(i + 1)
    IN pick(1)

\* The list GET /api/models answers with, from what fetchModels returned.
MergedCatalog(litellmModels) ==
    sortModels(uniqueById(IF Len(litellmModels) > 0
                          THEN AVAILABLE_MODELS \o litellmModels
                          ELSE AVAILABLE_MODELS))

\* The steps by which the clock advances: a few seconds (less than the
\* timeout of a gateway fetch) or most of the cache's time to live.
ClockSteps == { 5 * 1000, CACHE_DURATION_MS - 5 * 1000 }

\* this.cachedModels && now - this.cacheTimestamp < this.CACHE_DURATION_MS
CacheIsValid(now) ==
    ~cachedModels.isNull /\ now - cacheTimestamp < CACHE_DURATION_MS

\* Mutant: the catch block returns the empty array whatever the cache holds.
FailureResultEmpty(cache) == <<>>

\* The catch block of fetchModels: the cached models if there are any, even
\* if expired, else the empty array.
FailureResult(cache) == IF ~cache.isNull THEN cache.list ELSE <<>>

\* Mutant: GET answers with the gateway's models alone when it has some.
CatalogOfGatewayOnly(litellmModels) ==
    IF Len(litellmModels) > 0 THEN sortModels(uniqueById(litellmModels))
    ELSE MergedCatalog(litellmModels)

\* The body GET answers with.
GetResponse(litellmModels) == MergedCatalog(litellmModels)

IdleHandler ==
    [pc |-> "idle", kind |-> "GET", client |-> "other", now |-> 0,
     hit |-> FALSE, fresh |-> FALSE, outcome |-> "none", held |-> NoModels,
     fm |-> <<>>, response |-> <<>>]

CatalogIdle ==
    /\ clock = 0 /\ ticks = 0 /\ cachedModels = NoModels /\ cacheTimestamp = 0
    /\ handlers = [h \in 1..NHandlers |-> IdleHandler]
    /\ availableModels = AVAILABLE_MODELS /\ modelsLoading = FALSE
    /\ modelsError = Null
    /\ newestFetch = -1 /\ lastGoodList = NoModels /\ lastFetched = NoModels

CatalogAtRest == enabled = FALSE /\ CatalogIdle

\* A request reaches the provider's stream when it names a supported
\* provider whose key is configured and carries messages.
ReachesProvider(r) ==
    r.messages = "some" /\ r.apiKey /\ r.provider \in {"openai", "anthropic", "litellm"}

StreamInit ==
    /\ variant \in {"sse", "lines"}
    /\ request \in IF variant = "sse" THEN Requests
                   ELSE { [messages |-> "some", provider |-> "litellm", apiKey |-> TRUE] }
    /\ providerStream \in
          IF ReachesProvider(request) /\ (variant = "sse" => request.provider # "litellm")
          THEN SeqsUpTo(ProviderChunks(variant), MaxChunks)
          ELSE { <<>> }
    /\ StreamIdle
    /\ RetryAtRest
    /\ CatalogAtRest
    /\ ChatsAtRest
    /\ HttpAtRest
    /\ ClassifyAtRest
    /\ MergeAtRest
    /\ FramesAtRest

RetryInit ==
    /\ maxRetries \in 0..MaxRetriesBound
    /\ initialDelay \in {1000}
    /\ maxDelay \in {10000, 3000}
    /\ hasOnRetry \in BOOLEAN
    /\ RetryIdle
    /\ StreamAtRest
    /\ CatalogAtRest
    /\ ChatsAtRest
    /\ HttpAtRest
    /\ ClassifyAtRest
    /\ MergeAtRest
    /\ FramesAtRest

\* The catch block of the loop, run with the error of the call that just
\* failed: the new values of <<rpc, lastError, retryResult, onRetryLog, waits>>.
\* giveUp is the outcome of the two break tests, thrown the value of the final
\* throw statement.
CatchOutcome(error, giveUp, thrown) ==
    IF giveUp
    THEN \* break; throw lastError
         [rpc |-> "rejected", lastError |-> error,
          retryResult |-> [kind |-> "rejected", value |-> 0, error |-> thrown],
          onRetryLog |-> onRetryLog, waits |-> waits]
    ELSE [rpc |-> "waiting", lastError |-> error,
          retryResult |-> retryResult,
          onRetryLog |-> IF hasOnRetry
                         THEN Append(onRetryLog, <<attempt + 1, error>>)
                         ELSE onRetryLog,
          waits |-> Append(waits, BackoffDelay(attempt))]

\* Mutant: the budget test is off by one (attempt === maxRetries - 1).
CatchStepShortBudget(error) ==
    CatchOutcome(error,
                 attempt >= maxRetries - 1 \/ ~parseAPIError(error).retryable,
                 error)

\* Mutant: the retryable flag is not consulted.
CatchStepRetryAll(error) ==
    CatchOutcome(error, attempt = maxRetries, error)

\* Mutant: the final throw wraps the error in a new Error object.
CatchStepWrapped(error) ==
    CatchOutcome(error,
                 attempt = maxRetries \/ ~parseAPIError(error).retryable,
                 [id |-> 0, isError |-> TRUE, message |-> error.message])

\* Mutant: onRetry is passed the zero-based attempt instead of attempt + 1.
CatchStepOnRetryZeroBased(error) ==
    IF attempt = maxRetries \/ ~parseAPIError(error).retryable
    THEN CatchOutcome(error, TRUE, error)
    ELSE [rpc |-> "waiting", lastError |-> error, retryResult |-> retryResult,
          onRetryLog |-> IF hasOnRetry
                         THEN Append(onRetryLog, <<attempt, error>>)
                         ELSE onRetryLog,
          waits |-> Append(waits, BackoffDelay(attempt))]

CatchStep(error) ==
    CatchOutcome(error,
                 attempt = maxRetries \/ ~parseAPIError(error).retryable,
                 error)

\* retryWithBackoff is called: attempt = 0 and fn is called for the first time.
RetryStart ==
    /\ rpc = "start"
    /\ rpc' = "awaiting"
    /\ UNCHANGED <<maxRetries, initialDelay, maxDelay, hasOnRetry, attempt,
                   lastError, retryResult, fnLog, onRetryLog, waits>>
    /\ UNCHANGED nonRetryVars

\* Mutant: the value of the call is not returned; the loop goes on to the
\* next attempt.
FnResolvesKeepsGoing ==
    /\ rpc = "awaiting"
    /\ \E o \in FnOutcomes(Len(fnLog) + 1) :
        /\ o.ok
        /\ fnLog' = Append(fnLog, o)
    /\ rpc' = IF attempt = maxRetries THEN "resolved" ELSE "waiting"
    /\ retryResult' = [kind |-> IF attempt = maxRetries THEN "resolved" ELSE "pending",
                       value |-> Len(fnLog) + 1, error |-> NoError]
    /\ UNCHANGED <<maxRetries, initialDelay, maxDelay, hasOnRetry, attempt,
                   lastError, onRetryLog, waits>>
    /\ UNCHANGED nonRetryVars

\* The promise of the pending call of fn resolves: return await fn().
FnResolves ==
    /\ rpc = "awaiting"
    /\ \E o \in FnOutcomes(Len(fnLog) + 1) :
        /\ o.ok
        /\ fnLog' = Append(fnLog, o)
        /\ retryResult' = [kind |-> "resolved", value |-> o.value, error |-> NoError]
    /\ rpc' = "resolved"
    /\ UNCHANGED <<maxRetries, initialDelay, maxDelay, hasOnRetry, attempt,
                   lastError, onRetryLog, waits>>
    /\ UNCHANGED nonRetryVars

\* The promise of the pending call of fn rejects: the catch block runs.
FnRejects ==
    /\ rpc = "awaiting"
    /\ \E o \in FnOutcomes(Len(fnLog) + 1) :
        /\ ~o.ok
        /\ fnLog' = Append(fnLog, o)
        /\ LET c == CatchStep(o.error) IN
            /\ rpc' = c.rpc
            /\ lastError' = c.lastError
            /\ retryResult' = c.retryResult
            /\ onRetryLog' = c.onRetryLog
            /\ waits' = c.waits
    /\ UNCHANGED <<maxRetries, initialDelay, maxDelay, hasOnRetry, attempt>>
    /\ UNCHANGED nonRetryVars

\* The setTimeout of the wait fires: attempt++ and fn is called again.
WaitElapses ==
    /\ rpc = "waiting"
    /\ attempt' = attempt + 1
    /\ rpc' = "awaiting"
    /\ UNCHANGED <<maxRetries, initialDelay, maxDelay, hasOnRetry, lastError,
                   retryResult, fnLog, onRetryLog, waits>>
    /\ UNCHANGED nonRetryVars

RetryNext == RetryStart \/ FnResolves \/ FnRejects \/ WaitElapses

SpecRetry == RetryInit /\ [][RetryNext]_vars

(***************************************************************************)
(* POST /api/chat: the producer of the response stream.                    *)
(***************************************************************************)
\* The message of the error a provider call throws.
KeyErrorText(provider) ==
    IF provider = "openai" THEN <<"OpenAI API key not configured">>
    ELSE <<"Anthropic API key not configured">>

UnsupportedText == <<"Unsupported provider">>

UpstreamErrorTexts == { <<"429 rate limit">> }

\* Mutant: the catch block ends the response itself, without the [DONE] frame.
RouteCatchSkipsDone(text) ==
    /\ wire' = wire \o ErrorFrame(text)
    /\ sentFrames' = Append(sentFrames, "error")
    /\ routeError' = [id |-> 1, isError |-> TRUE, message |-> text]
    /\ spc' = "closed"

\* The catch block of start(controller): the error frame is enqueued.
RouteCatch(text) ==
    /\ wire' = wire \o ErrorFrame(text)
    /\ sentFrames' = Append(sentFrames, "error")
    /\ routeError' = [id |-> 1, isError |-> TRUE, message |-> text]
    /\ spc' = "finally"

\* POST is entered with the request of a pending fetch: an empty message
\* list is answered 400, any other request with the stream.
RoutePOST ==
    /\ variant = "sse" /\ cpc = "fetching" /\ spc = "idle"
    /\ IF request.messages = "none"
       THEN status' = 400 /\ spc' = "closed"
       ELSE status' = 200 /\ spc' = "started"
    /\ UNCHANGED <<variant, request, providerStream, yielded, abandoned, wire, closed, sentDeltas,
                   sentFrames, routeError, cpc, assistantMessage, chatMessages,
                   assistantMessageId, updates, delivered, cutMidLine, clientError>>
    /\ UNCHANGED nonStreamVars

\* start(controller) up to the provider's stream: the provider is selected
\* and its API key looked up; either may throw.
RouteStart ==
    /\ spc = "started"
    /\ IF request.provider \notin {"openai", "anthropic"}
       THEN RouteCatch(UnsupportedText)
       ELSE IF ~request.apiKey
       THEN RouteCatch(KeyErrorText(request.provider))
       ELSE /\ spc' = "streaming"
            /\ UNCHANGED <<wire, sentFrames, routeError>>
    /\ UNCHANGED <<variant, request, providerStream, yielded, abandoned, status, closed, sentDeltas,
                   cpc, assistantMessage, chatMessages, assistantMessageId,
                   updates, delivered, cutMidLine, clientError>>
    /\ UNCHANGED nonStreamVars

\* One turn of "for await (const chunk of stream)": a chunk that carries a
\* non-empty text delta is enqueued as a content frame, any other is skipped.
RouteChunk ==
    /\ variant = "sse" /\ spc = "streaming" /\ providerStream # <<>>
    /\ LET chunk == Head(providerStream) IN
        IF CarriesText(chunk)
        THEN /\ wire' = wire \o ContentFrame(chunk.text)
             /\ sentDeltas' = Append(sentDeltas, chunk.text)
             /\ sentFrames' = Append(sentFrames, "content")
        ELSE UNCHANGED <<wire, sentDeltas, sentFrames>>
    /\ providerStream' = Tail(providerStream)
    /\ yielded' = Append(yielded, Head(providerStream))
    /\ UNCHANGED <<variant, request, abandoned, spc, status, closed, routeError, cpc,
                   assistantMessage, chatMessages, assistantMessageId, updates,
                   delivered, cutMidLine, clientError>>
    /\ UNCHANGED nonStreamVars

\* The provider call throws (on creating the stream or between two chunks).
RouteProviderThrows ==
    /\ variant = "sse" /\ spc = "streaming"
    /\ \E text \in UpstreamErrorTexts : RouteCatch(text)
    /\ UNCHANGED <<variant, request, providerStream, yielded, abandoned, status, closed, sentDeltas,
                   cpc, assistantMessage, chatMessages, assistantMessageId,
                   updates, delivered, cutMidLine, clientError>>
    /\ UNCHANGED nonStreamVars

\* The provider's stream ends: streamOpenAI / streamAnthropic returns.
RouteStreamEnds ==
    /\ variant = "sse" /\ spc = "streaming" /\ providerStream = <<>>
    /\ spc' = "finally"
    /\ UNCHANGED <<variant, request, providerStream, yielded, abandoned, status, wire, closed,
                   sentDeltas, sentFrames, routeError, cpc, assistantMessage,
                   chatMessages, assistantMessageId, updates, delivered,
                   cutMidLine, clientError>>
    /\ UNCHANGED nonStreamVars

\* The finally block: the [DONE] frame is enqueued and the stream closed.
RouteFinally ==
    /\ spc = "finally"
    /\ wire' = wire \o DoneFrame
    /\ sentFrames' = Append(sentFrames, "done")
    /\ closed' = TRUE
    /\ spc' = "closed"
    /\ UNCHANGED <<variant, request, providerStream, yielded, abandoned, status, sentDeltas,
                   routeError, cpc, assistantMessage, chatMessages,
                   assistantMessageId, updates, delivered, cutMidLine, clientError>>
    /\ UNCHANGED nonStreamVars

(***************************************************************************)
(* The producer of the 0: line protocol read by the second consumer.       *)
(***************************************************************************)
GatewayAccepts ==
    /\ variant = "lines" /\ cpc = "fetching" /\ spc = "idle"
    /\ status' = 200 /\ spc' = "streaming"
    /\ UNCHANGED <<variant, request, providerStream, yielded, abandoned, wire, closed, sentDeltas,
                   sentFrames, routeError, cpc, assistantMessage, chatMessages,
                   assistantMessageId, updates, delivered, cutMidLine, clientError>>
    /\ UNCHANGED nonStreamVars

GatewayLine ==
    /\ variant = "lines" /\ spc = "streaming" /\ providerStream # <<>>
    /\ LET chunk == Head(providerStream) IN
        IF chunk.type = "text"
        THEN /\ wire' = wire \o LineFrame(chunk.text)
             /\ sentDeltas' = Append(sentDeltas, chunk.text)
             /\ sentFrames' = Append(sentFrames, "content")
        ELSE UNCHANGED <<wire, sentDeltas, sentFrames>>
    /\ providerStream' = Tail(providerStream)
    /\ yielded' = Append(yielded, Head(providerStream))
    /\ UNCHANGED <<variant, request, abandoned, spc, status, closed, routeError, cpc,
                   assistantMessage, chatMessages, assistantMessageId, updates,
                   delivered, cutMidLine, clientError>>
    /\ UNCHANGED nonStreamVars

GatewayEnds ==
    /\ variant = "lines" /\ spc = "streaming" /\ providerStream = <<>>
    /\ closed' = TRUE /\ spc' = "closed"
    /\ UNCHANGED <<variant, request, providerStream, yielded, abandoned, status, wire, sentDeltas,
                   sentFrames, routeError, cpc, assistantMessage, chatMessages,
                   assistantMessageId, updates, delivered, cutMidLine, clientError>>
    /\ UNCHANGED nonStreamVars

(***************************************************************************)
(* handleSubmit: the consumer of the response stream.                      *)
(***************************************************************************)
UserMessage == [role |-> "user", content |-> <<"h", "i">>]

\* Mutant: the catch block also empties the message that was being streamed.
ClientCatchRollback(error, messages) ==
    /\ clientError' = error
    /\ chatMessages' =
        IF assistantMessageId # 0
        THEN [messages EXCEPT ![assistantMessageId].content = <<>>]
        ELSE messages
    /\ cpc' = "failed"

\* The catch and finally blocks of handleSubmit.  The first consumer adds
\* an apology to the chat; the second shows a toast and adds an error
\* message to the chat only for a non-retryable error.
ClientCatch(error, messages) ==
    /\ clientError' = error
    /\ chatMessages' =
        IF variant = "sse"
        THEN Append(messages, [role |-> "assistant",
                               content |-> <<"Sorry, I encountered an error.">>])
        ELSE IF ~parseAPIError(error).retryable
        THEN Append(messages, [role |-> "assistant",
                               content |-> <<"Error: ">> \o parseAPIError(error).message])
        ELSE messages
    /\ cpc' = "failed"

\* handleSubmit up to the fetch: the user message is added, the request sent.
ClientSubmit ==
    /\ cpc = "idle"
    /\ chatMessages' = Append(chatMessages, UserMessage)
    /\ cpc' = "fetching"
    /\ UNCHANGED <<variant, request, providerStream, yielded, abandoned, spc, status, wire, closed,
                   sentDeltas, sentFrames, routeError, assistantMessage,
                   assistantMessageId, updates, delivered, cutMidLine, clientError>>
    /\ UNCHANGED nonStreamVars

\* await fetch(...) rejects: the request never got an answer.
ClientFetchFails ==
    /\ cpc = "fetching" /\ status = 0
    /\ ClientCatch([id |-> 2, isError |-> TRUE, message |-> <<"Failed to", "fetch">>],
                   chatMessages)
    /\ UNCHANGED <<variant, request, providerStream, yielded, abandoned, spc, status, wire, closed,
                   sentDeltas, sentFrames, routeError, assistantMessage,
                   assistantMessageId, updates, delivered, cutMidLine>>
    /\ UNCHANGED nonStreamVars

\* await fetch(...) resolves: a response that is not ok is thrown as an
\* error; for an ok response the empty assistant message is added and its id
\* read back as the id of the chat's last message.
ClientResponse ==
    /\ cpc = "fetching" /\ status # 0
    /\ IF status # 200
       THEN /\ ClientCatch([id |-> 3, isError |-> TRUE,
                            message |-> <<"Failed to get response">>], chatMessages)
            /\ UNCHANGED assistantMessageId
       ELSE /\ chatMessages' = Append(chatMessages,
                                      [role |-> "assistant", content |-> <<>>])
            /\ assistantMessageId' = Len(chatMessages) + 1
            /\ cpc' = "reading"
            /\ UNCHANGED clientError
    /\ UNCHANGED <<variant, request, providerStream, yielded, abandoned, spc, status, wire, closed,
                   sentDeltas, sentFrames, routeError, assistantMessage,
                   updates, delivered, cutMidLine>>
    /\ UNCHANGED nonStreamVars

\* One turn of the read loop: reader.read() returns the next bytes of the
\* stream, cut wherever the transport cut them.
ClientRead ==
    /\ cpc = "reading" /\ wire # <<>>
    /\ \E n \in 1..Len(wire) :
        LET chunk == SubSeq(wire, 1, n)
            st == ProcessChunk(variant,
                               [acc |-> assistantMessage,
                                content |-> chatMessages[assistantMessageId].content,
                                updates |-> updates],
                               chunk, assistantMessageId # 0)
        IN /\ wire' = slice(wire, n)
           /\ delivered' = delivered \o chunk
           /\ cutMidLine' = (cutMidLine \/ chunk[n] # NL)
           /\ assistantMessage' = st.acc
           /\ updates' = st.updates
           /\ chatMessages' = [chatMessages EXCEPT
                                  ![assistantMessageId].content = st.content]
    /\ UNCHANGED <<variant, request, providerStream, yielded, abandoned, spc, status, closed,
                   sentDeltas, sentFrames, routeError, cpc, assistantMessageId,
                   clientError>>
    /\ UNCHANGED nonStreamVars

\* reader.read() reports done: the loop is left and handleSubmit completes
\* normally.
ClientReadDone ==
    /\ cpc = "reading" /\ wire = <<>> /\ closed
    /\ cpc' = "done"
    /\ UNCHANGED <<variant, request, providerStream, yielded, abandoned, spc, status, wire, closed,
                   sentDeltas, sentFrames, routeError, assistantMessage,
                   chatMessages, assistantMessageId, updates, delivered,
                   cutMidLine, clientError>>
    /\ UNCHANGED nonStreamVars

\* reader.read() rejects: the connection was lost before the stream ended.
ClientReadFails ==
    /\ cpc = "reading" /\ ~(wire = <<>> /\ closed)
    /\ ClientCatch([id |-> 4, isError |-> TRUE, message |-> <<"network", "error">>],
                   chatMessages)
    /\ UNCHANGED <<variant, request, providerStream, yielded, abandoned, spc, status, wire, closed,
                   sentDeltas, sentFrames, routeError, assistantMessage,
                   assistantMessageId, updates, delivered, cutMidLine>>
    /\ UNCHANGED nonStreamVars

\* The user clicks the button that reads "Stop generating" while the stream
\* is read, or leaves the chat: the click handler only prevents the default
\* action, and nothing is registered that would run on leaving.  Only the
\* consumer of 0: lines has this button.
ClientAbandons ==
    /\ variant = "lines" /\ cpc = "reading" /\ ~abandoned
    /\ abandoned' = TRUE
    /\ UNCHANGED <<variant, request, providerStream, yielded, spc, status, wire,
                   closed, sentDeltas, sentFrames, routeError, cpc,
                   assistantMessage, chatMessages, assistantMessageId, updates,
                   delivered, cutMidLine, clientError>>
    /\ UNCHANGED nonStreamVars

StreamNext ==
    \/ RoutePOST \/ RouteStart \/ RouteChunk \/ RouteProviderThrows
    \/ RouteStreamEnds \/ RouteFinally
    \/ GatewayAccepts \/ GatewayLine \/ GatewayEnds
    \/ ClientSubmit \/ ClientFetchFails \/ ClientResponse
    \/ ClientRead \/ ClientReadDone \/ ClientReadFails \/ ClientAbandons

SpecStream == StreamInit /\ [][StreamNext]_vars

(***************************************************************************)
(* /api/models over the adapter's cache, and the store's model actions.    *)
(***************************************************************************)
CatalogInit ==
    /\ enabled \in BOOLEAN
    /\ CatalogIdle
    /\ RetryAtRest
    /\ StreamAtRest
    /\ ClassifyAtRest
    /\ MergeAtRest
    /\ FramesAtRest
    /\ ChatsAtRest
    /\ HttpAtRest

\* The first free slot.
FirstFree(h) ==
    /\ handlers[h].pc = "idle"
    /\ \A j \in 1..(h - 1) : handlers[j].pc # "idle"

Requested(kind, client) ==
    [IdleHandler EXCEPT !.pc = "requested", !.kind = kind, !.client = client]

\* An operator requests POST /api/models, the manual refresh.
OtherRequest ==
    /\ \E h \in 1..NHandlers :
        /\ FirstFree(h)
        /\ handlers' = [handlers EXCEPT ![h] = Requested("POST", "other")]
    /\ UNCHANGED <<enabled, clock, ticks, cachedModels, cacheTimestamp,
                   availableModels, modelsLoading, modelsError, newestFetch,
                   lastGoodList, lastFetched>>
    /\ UNCHANGED nonCatalogVars

\* The store's fetchModels up to its fetch("/api/models"); it returns at
\* once while a load is pending or more than the built-in models are held.
StoreFetchModels ==
    /\ ~(modelsLoading \/ Len(availableModels) > Len(AVAILABLE_MODELS))
    /\ modelsLoading' = TRUE
    /\ modelsError' = Null
    /\ \E h \in 1..NHandlers :
        /\ FirstFree(h)
        /\ handlers' = [handlers EXCEPT ![h] = Requested("GET", "fetchModels")]
    /\ UNCHANGED <<enabled, clock, ticks, cachedModels, cacheTimestamp,
                   availableModels, newestFetch, lastGoodList, lastFetched>>
    /\ UNCHANGED nonCatalogVars

\* The store's refreshModels up to its fetch("/api/models").
StoreRefreshModels ==
    /\ modelsLoading' = TRUE
    /\ modelsError' = Null
    /\ \E h \in 1..NHandlers :
        /\ FirstFree(h)
        /\ handlers' = [handlers EXCEPT ![h] = Requested("GET", "refreshModels")]
    /\ UNCHANGED <<enabled, clock, ticks, cachedModels, cacheTimestamp,
                   availableModels, newestFetch, lastGoodList, lastFetched>>
    /\ UNCHANGED nonCatalogVars

\* Whether a gateway fetch that succeeded since the cache was last cleared
\* started less than CACHE_DURATION_MS before now.
FreshAt(now, newest) == newest >= 0 /\ now - newest < CACHE_DURATION_MS

\* GET is entered: without a configured gateway it answers with the
\* built-in models; else fetchModels runs up to its cache test and either
\* returns the cached models or starts the gateway fetch.
GetBegins(h) ==
    /\ handlers[h].pc = "requested" /\ handlers[h].kind = "GET"
    /\ handlers' = [handlers EXCEPT ![h] =
        IF ~enabled
        THEN [@ EXCEPT !.pc = "done", !.outcome = "unconfigured",
                       !.response = GetResponse(<<>>)]
        ELSE IF CacheIsValid(clock)
        THEN [@ EXCEPT !.pc = "done", !.hit = TRUE,
                       !.fresh = FreshAt(clock, newestFetch),
                       !.outcome = "cached", !.fm = cachedModels.list,
                       !.response = GetResponse(cachedModels.list)]
        ELSE [@ EXCEPT !.pc = "fetching", !.now = clock,
                       !.fresh = FreshAt(clock, newestFetch)]]
    /\ UNCHANGED <<enabled, clock, ticks, cachedModels, cacheTimestamp,
                   availableModels, modelsLoading, modelsError, newestFetch,
                   lastGoodList, lastFetched>>
    /\ UNCHANGED nonCatalogVars

\* POST is entered: without a configured gateway it answers 400; else
\* clearCache() and fetchModels up to the gateway fetch.
PostBegins(h) ==
    /\ handlers[h].pc = "requested" /\ handlers[h].kind = "POST"
    /\ IF ~enabled
       THEN /\ handlers' = [handlers EXCEPT ![h] =
                   [@ EXCEPT !.pc = "done", !.outcome = "unconfigured"]]
            /\ UNCHANGED <<cachedModels, cacheTimestamp, newestFetch, lastGoodList,
                   lastFetched>>
       ELSE /\ cachedModels' = NoModels
            /\ cacheTimestamp' = 0
            /\ newestFetch' = -1
            /\ lastGoodList' = NoModels
            /\ lastFetched' = lastFetched
            /\ handlers' = [handlers EXCEPT ![h] =
                   [@ EXCEPT !.pc = "fetching", !.now = clock]]
    /\ UNCHANGED <<enabled, clock, ticks, availableModels, modelsLoading,
                   modelsError>>
    /\ UNCHANGED nonCatalogVars

HandlerBegins == \E h \in 1..NHandlers : GetBegins(h) \/ PostBegins(h)

\* What fetchModels' return means for the handler that awaited it.
Answered(slot, outcome, fm, held) ==
    [slot EXCEPT !.pc = "done", !.now = 0, !.outcome = outcome, !.fm = fm,
                 !.held = held,
                 !.response = IF slot.kind = "GET" THEN GetResponse(fm) ELSE <<>>]

\* The gateway fetch of a handler succeeds with a data array: the models are
\* transformed, cached with the time the call started, and returned.
FetchSucceeds ==
    /\ \E h \in 1..NHandlers, data \in GatewayAnswers :
        /\ handlers[h].pc = "fetching"
        /\ LET models == transformAll(data) IN
            /\ cachedModels' = Some(models)
            /\ cacheTimestamp' = handlers[h].now
            /\ newestFetch' = IF handlers[h].now > newestFetch THEN handlers[h].now ELSE newestFetch
            /\ lastGoodList' = Some(models)
            /\ lastFetched' = Some(models)
            /\ handlers' = [handlers EXCEPT ![h] =
                               Answered(@, "fetched", models, NoModels)]
    /\ UNCHANGED <<enabled, clock, ticks, availableModels, modelsLoading,
                   modelsError>>
    /\ UNCHANGED nonCatalogVars

\* The gateway fetch of a handler fails (network error, timeout, a status
\* that is not ok, a payload without a data array): the catch block.
FetchFails ==
    /\ \E h \in 1..NHandlers :
        /\ handlers[h].pc = "fetching"
        /\ handlers' = [handlers EXCEPT ![h] =
                           Answered(@, "failed", FailureResult(cachedModels), lastGoodList)]
    /\ UNCHANGED <<enabled, clock, ticks, cachedModels, cacheTimestamp,
                   availableModels, modelsLoading, modelsError, newestFetch,
                   lastGoodList, lastFetched>>
    /\ UNCHANGED nonCatalogVars

\* The store's fetch resolves with the answer of GET: the catalog replaces
\* availableModels.
StoreResponse ==
    /\ \E h \in 1..NHandlers :
        /\ handlers[h].pc = "done"
        /\ handlers[h].client \in {"fetchModels", "refreshModels"}
        /\ availableModels' = handlers[h].response
        /\ handlers' = [handlers EXCEPT ![h] = IdleHandler]
    /\ modelsLoading' = FALSE
    /\ modelsError' = Null
    /\ UNCHANGED <<enabled, clock, ticks, cachedModels, cacheTimestamp,
                   newestFetch, lastGoodList, lastFetched>>
    /\ UNCHANGED nonCatalogVars

\* The store's fetch fails (the request or its answer is lost): the catch
\* block.
StoreRequestFails ==
    /\ \E h \in 1..NHandlers :
        /\ handlers[h].pc \in {"requested", "done"}
        /\ handlers[h].client \in {"fetchModels", "refreshModels"}
        /\ modelsError' = IF handlers[h].client = "fetchModels"
                          THEN "Failed to fetch models"
                          ELSE "Failed to refresh models"
        /\ handlers' = [handlers EXCEPT ![h] = IdleHandler]
    /\ modelsLoading' = FALSE
    /\ UNCHANGED <<enabled, clock, ticks, cachedModels, cacheTimestamp,
                   availableModels, newestFetch, lastGoodList, lastFetched>>
    /\ UNCHANGED nonCatalogVars

\* The answer to another client is sent: the slot is free again.
OtherResponse ==
    /\ \E h \in 1..NHandlers :
        /\ handlers[h].pc = "done" /\ handlers[h].client = "other"
        /\ handlers' = [handlers EXCEPT ![h] = IdleHandler]
    /\ UNCHANGED <<enabled, clock, ticks, cachedModels, cacheTimestamp,
                   availableModels, modelsLoading, modelsError, newestFetch,
                   lastGoodList, lastFetched>>
    /\ UNCHANGED nonCatalogVars

\* Time passes; no gateway fetch stays pending beyond its timeout.
Tick ==
    /\ ticks < MaxTicks
    /\ \E d \in ClockSteps :
        /\ \A h \in 1..NHandlers :
              handlers[h].pc = "fetching" =>
                  clock + d - handlers[h].now <= FETCH_TIMEOUT_MS
        /\ clock' = clock + d
    /\ ticks' = ticks + 1
    /\ UNCHANGED <<enabled, cachedModels, cacheTimestamp, handlers,
                   availableModels, modelsLoading, modelsError, newestFetch,
                   lastGoodList, lastFetched>>
    /\ UNCHANGED nonCatalogVars

CatalogNext ==
    \/ OtherRequest \/ StoreFetchModels \/ StoreRefreshModels
    \/ HandlerBegins \/ FetchSucceeds \/ FetchFails
    \/ StoreResponse \/ StoreRequestFails \/ OtherResponse \/ Tick

SpecCatalog == CatalogInit /\ [][CatalogNext]_vars

(***************************************************************************)
(* parseAPIError on any thrown value.                                      *)
(***************************************************************************)
\* The words of the messages: every keyword phrase of the classifier in
\* lower case, the capitalised phrases, and words no rule looks for.
Words ==
    (DOMAIN LowerOf) \cup { LowerOf[w] : w \in DOMAIN LowerOf }
        \cup {"401", "429", "404", "500"}

\* The values parseAPIError is called with: Error objects with a message of
\* up to MaxWords words, and a value that is not an instance of Error.
ThrownValues ==
    { [id |-> 1, isError |-> TRUE, message |-> m] : m \in SeqsUpTo(Words, MaxWords) }
        \cup { [id |-> 1, isError |-> FALSE, message |-> <<>>] }

ClassifyInit ==
    /\ thrownValue \in ThrownValues
    /\ apiError = NotParsed
    /\ MergeAtRest
    /\ FramesAtRest
    /\ RetryAtRest
    /\ StreamAtRest
    /\ CatalogAtRest
    /\ ChatsAtRest
    /\ HttpAtRest

\* const apiError = parseAPIError(error)
Classify ==
    /\ apiError = NotParsed
    /\ apiError' = parseAPIError(thrownValue)
    /\ UNCHANGED thrownValue
    /\ UNCHANGED nonClassifyVars

ClassifyNext == Classify

SpecClassify == ClassifyInit /\ [][ClassifyNext]_vars

(***************************************************************************)
(* GET /api/models on any list fetchModels can return.                     *)
(***************************************************************************)
\* The models of the gateway: one with the id of a built-in model, two that
\* get the same display name, and one more.
GatewayModels ==
    { [id |-> "gpt-4", owned_by |-> "openai"],
      [id |-> "mistral-7b", owned_by |-> "mistralai"],
      [id |-> "mistral-large", owned_by |-> "mistralai"],
      [id |-> "llama-3-8b", owned_by |-> "meta"] }

MergeInit ==
    /\ gatewayData \in SeqsUpTo(GatewayModels, MaxGatewayModels)
    /\ uniqueModels = <<>>
    /\ ClassifyAtRest
    /\ FramesAtRest
    /\ RetryAtRest
    /\ StreamAtRest
    /\ CatalogAtRest
    /\ ChatsAtRest
    /\ HttpAtRest

\* GET with fetchModels returning the transformed data array.
GetMerges ==
    /\ uniqueModels = <<>>
    /\ uniqueModels' = GetResponse(transformAll(gatewayData))
    /\ UNCHANGED gatewayData
    /\ UNCHANGED nonMergeVars

MergeNext == GetMerges

SpecMerge == MergeInit /\ [][MergeNext]_vars

(***************************************************************************)
(* The read loop of either consumer on any sequence of whole lines.        *)
(***************************************************************************)
\* The lines a stream can hold, each with the text delta it carries and
\* whether the consumer can use it.  For the consumer of data: frames: two
\* content frames, a frame with truncated JSON, a frame that is not JSON, a
\* line with another field name, the [DONE] frame and the empty line between
\* frames.  For the consumer of 0: lines: a text line, lines with other
\* prefixes, a 0: line whose payload is [DONE] (the loop appends the rest of
\* every 0: line) and the empty line.
FrameLines(v) ==
    IF v = "sse"
    THEN { [text |-> DataPrefix \o stringifyContent(<<"H">>),
            delta |-> <<"H">>, usable |-> TRUE],
           [text |-> DataPrefix \o stringifyContent(<<QUOTE, NL>>),
            delta |-> <<QUOTE, NL>>, usable |-> TRUE],
           [text |-> DataPrefix \o ContentOpen \o <<"H">>,
            delta |-> <<>>, usable |-> FALSE],
           [text |-> DataPrefix \o <<"o", "o", "p", "s">>,
            delta |-> <<>>, usable |-> FALSE],
           [text |-> <<"i", "d", ":", " ", "1">>,
            delta |-> <<>>, usable |-> FALSE],
           [text |-> DataPrefix \o DoneData, delta |-> <<>>, usable |-> FALSE],
           [text |-> <<>>, delta |-> <<>>, usable |-> FALSE] }
    ELSE { [text |-> LinePrefix \o <<"H", "i">>,
            delta |-> <<"H", "i">>, usable |-> TRUE],
           [text |-> <<"2", ":", "x">>, delta |-> <<>>, usable |-> FALSE],
           [text |-> DataPrefix \o stringifyContent(<<"H">>),
            delta |-> <<>>, usable |-> FALSE],
           [text |-> LinePrefix \o DoneData, delta |-> DoneData, usable |-> TRUE],
           [text |-> <<>>, delta |-> <<>>, usable |-> FALSE] }

FramesInit ==
    /\ frameVariant \in {"sse", "lines"}
    /\ framesLeft \in SeqsUpTo(FrameLines(frameVariant), MaxLines)
    /\ framesRead = <<>>
    /\ reassembled = NothingRead
    /\ ClassifyAtRest
    /\ MergeAtRest
    /\ RetryAtRest
    /\ StreamAtRest
    /\ CatalogAtRest
    /\ ChatsAtRest
    /\ HttpAtRest

\* The bytes of some lines, each ended by a newline.
RECURSIVE BytesOf(_)
BytesOf(frames) ==
    IF frames = <<>> THEN <<>>
    ELSE Head(frames).text \o <<NL>> \o BytesOf(Tail(frames))

\* One turn of the read loop: reader.read() returns the next n whole lines.
ReadLines ==
    /\ framesLeft # <<>>
    /\ \E n \in 1..Len(framesLeft) :
        /\ reassembled' = ProcessChunk(frameVariant, reassembled,
                                       BytesOf(SubSeq(framesLeft, 1, n)), TRUE)
        /\ framesRead' = framesRead \o SubSeq(framesLeft, 1, n)
        /\ framesLeft' = SubSeq(framesLeft, n + 1, Len(framesLeft))
    /\ UNCHANGED frameVariant
    /\ UNCHANGED nonFrameVars

FramesNext == ReadLines

SpecFrames == FramesInit /\ [][FramesNext]_vars

(***************************************************************************)
(* Claims about retryWithBackoff.                                          *)
(***************************************************************************)
\* The number of calls of fn made so far (the pending one included).
FnCalls == Len(fnLog) + (IF rpc = "awaiting" THEN 1 ELSE 0)

RetryableFailure(o) == ~o.ok /\ parseAPIError(o.error).retryable

NonRetryableFailure(o) == ~o.ok /\ ~parseAPIError(o.error).retryable

AllRetryableFailures == \A i \in 1..Len(fnLog) : RetryableFailure(fnLog[i])

\* C1: when every call of fn fails with a retryable error, fn is called at
\* most maxRetries + 1 times, retryWithBackoff never resolves, and it has
\* rejected exactly when the (maxRetries + 1)-th call has failed.
C1_AlwaysFailingCallsNPlus1 ==
    AllRetryableFailures =>
        /\ FnCalls <= maxRetries + 1
        /\ rpc # "resolved"
        /\ (rpc = "rejected") <=> (Len(fnLog) = maxRetries + 1)

C1_Witness ==
    /\ rpc = "rejected" /\ AllRetryableFailures
    /\ maxRetries = 3 /\ Len(fnLog) = 4

\* C2: a call of fn that fails with a non-retryable error is the last call:
\* retryWithBackoff has rejected, and no onRetry call and no wait was added
\* for it (every wait and onRetry call belongs to an earlier failure).
C2_NonRetryableStopsAtOnce ==
    \A i \in 1..Len(fnLog) :
        NonRetryableFailure(fnLog[i]) =>
            /\ i = Len(fnLog)
            /\ FnCalls = i
            /\ rpc = "rejected"
            /\ Len(waits) = i - 1
            /\ Len(onRetryLog) = (IF hasOnRetry THEN i - 1 ELSE 0)

C2_Witness ==
    /\ rpc = "rejected" /\ Len(fnLog) = 1 /\ maxRetries = 3 /\ hasOnRetry
    /\ fnLog[1].error.message = <<"401">>
    /\ waits = <<>> /\ onRetryLog = <<>>

\* C3: whenever retryWithBackoff has rejected, the value it rejected with is
\* the error object (same identity) thrown by the most recent call of fn.
C3_RejectsWithLastErrorObject ==
    rpc = "rejected" =>
        /\ Len(fnLog) > 0
        /\ retryResult.kind = "rejected"
        /\ retryResult.error = fnLog[Len(fnLog)].error
        /\ retryResult.error.id = Len(fnLog)

C3_Witness ==
    /\ rpc = "rejected" /\ Len(fnLog) = 3 /\ maxRetries = 2
    /\ retryResult.error.id = 3
(***************************************************************************)
(* Claims about the stream consumer.                                       *)
(***************************************************************************)
\* The running concatenations d1, d1+d2, ..., d1+...+dn of a sequence of texts.
PrefixSums(texts) == [k \in 1..Len(texts) |-> Concat(SubSeq(texts, 1, k))]

\* The content of the streamed assistant message.
StreamedContent == chatMessages[assistantMessageId].content

\* Whether text a is the start of text b.
IsPrefixOf(a, b) == Len(a) <= Len(b) /\ SubSeq(b, 1, Len(a)) = a

\* The successive arguments of updateMessage each extend the one before, and
\* the last one is the accumulator and the content of the message.
UpdatesGrow ==
    /\ \A k \in 1..(Len(updates) - 1) : IsPrefixOf(updates[k], updates[k + 1])
    /\ assistantMessage = (IF updates = <<>> THEN <<>> ELSE updates[Len(updates)])
    /\ StreamedContent = assistantMessage

AsOneChunk(bytes) ==
    ProcessChunk(variant, [acc |-> <<>>, content |-> <<>>, updates |-> <<>>],
                 bytes, TRUE).acc

\* C5: when the stream has been read to its end, the reassembled text is the
\* text the consumer reassembles from the same bytes delivered as one chunk,
\* wherever the reads cut the stream.
C5_ChunkingDoesNotChangeText ==
    cpc = "done" => assistantMessage = AsOneChunk(delivered)

\* C10: when the provider call of the route threw (missing key, unsupported
\* provider, upstream error), handleSubmit does not complete normally: it
\* ends in its catch block.
C10_ProviderFailureReachesCaller ==
    (routeError # NoError /\ cpc \in {"done", "failed"}) =>
        (cpc = "failed" /\ clientError # NoError)

(***************************************************************************)
(* Claims about the model catalog.                                         *)
(***************************************************************************)
Handlers == 1..NHandlers

Ids(models) == { models[i].id : i \in 1..Len(models) }

\* C6: a fetchModels call that starts while a gateway fetch that succeeded
\* since the cache was last cleared started less than CACHE_DURATION_MS ago
\* returns the cached list and starts no gateway fetch.
C6_FreshCacheAnswersWithoutFetch ==
    \A h \in Handlers :
        (handlers[h].pc # "idle" /\ handlers[h].fresh) =>
            (handlers[h].hit /\ handlers[h].pc = "done")

\* C7: when the gateway fetch of a fetchModels call fails while the list of
\* an earlier successful fetch is held, the call returns that list; a held
\* list that is not empty is not answered with the empty list.
C7_FailureReturnsHeldList ==
    \A h \in Handlers :
        (handlers[h].pc = "done" /\ handlers[h].outcome = "failed"
            /\ ~handlers[h].held.isNull) =>
                /\ handlers[h].fm = handlers[h].held.list
                /\ (handlers[h].held.list # <<>> => handlers[h].fm # <<>>)

\* A call that started after the cache expired, whose gateway fetch failed,
\* and that returned the list of two models fetched earlier.
C7_Witness ==
    \E h \in Handlers :
        /\ handlers[h].pc = "done" /\ handlers[h].outcome = "failed"
        /\ ~handlers[h].fresh /\ ~handlers[h].hit
        /\ ~handlers[h].held.isNull /\ Len(handlers[h].held.list) = 2
        /\ handlers[h].fm = handlers[h].held.list
        /\ clock >= CACHE_DURATION_MS

\* The catalog of every answer of GET is not empty and has every built-in id.
CatalogsHoldBuiltIns ==
    \A h \in Handlers :
        (handlers[h].pc = "done" /\ handlers[h].kind = "GET") =>
            /\ handlers[h].response # <<>>
            /\ Ids(AVAILABLE_MODELS) \subseteq Ids(handlers[h].response)

\* C8: whatever the gateway did (not configured, answered, answered with no
\* models, failed), the catalog GET answers with is not empty and contains
\* the id of every built-in model, and so does the store's availableModels;
\* and a step in which the store records a failure of fetchModels or
\* refreshModels leaves availableModels as it was.
C8_CatalogNeverLosesBuiltIns ==
    /\ [](CatalogsHoldBuiltIns
            /\ Ids(AVAILABLE_MODELS) \subseteq Ids(availableModels))
    /\ [][modelsError' # Null => availableModels' = availableModels]_vars

\* The gateway failed with nothing cached and GET answered with a catalog,
\* the store holds a catalog with a gateway model in it, and its latest
\* request has failed.
C8_Witness ==
    /\ \E h \in Handlers :
        /\ handlers[h].pc = "done" /\ handlers[h].kind = "GET"
        /\ handlers[h].outcome = "failed" /\ handlers[h].held.isNull
        /\ Len(handlers[h].response) = Len(AVAILABLE_MODELS)
    /\ modelsError # Null
    /\ "mistral-7b" \in Ids(availableModels)

\* C9: at most one gateway fetch is pending at any time.
C9_AtMostOneFetchInFlight ==
    Cardinality({ h \in Handlers : handlers[h].pc = "fetching" }) <= 1

(***************************************************************************)
(* Claims about parseAPIError.                                             *)
(***************************************************************************)
Parsed == apiError # NotParsed

\* The kinds in the order of the rules; "NONE" is the result without a code.
KindOrder ==
    <<"NETWORK_ERROR", "AUTH_ERROR", "RATE_LIMIT", "MODEL_ERROR", "TIMEOUT",
      "SERVER_ERROR", "CONTEXT_LENGTH", "NONE">>

RankOfKind(kind) == CHOOSE i \in 1..Len(KindOrder) : KindOrder[i] = kind

KeywordsOf(kind) ==
    CASE kind = "NETWORK_ERROR" -> {"fetch", "network"}
      [] kind = "AUTH_ERROR" -> {"api key", "unauthorized", "401"}
      [] kind = "RATE_LIMIT" -> {"rate limit", "429", "too many requests"}
      [] kind = "MODEL_ERROR" -> {"model", "404", "not found"}
      [] kind = "TIMEOUT" -> {"timeout", "timed out"}
      [] kind = "SERVER_ERROR" -> {"500", "server error"}
      [] kind = "CONTEXT_LENGTH" -> {"context", "token", "too long"}
      [] OTHER -> {}

\* The message holds the keyword in some letter case.
HasKeyword(message, keyword) ==
    \E i \in 1..Len(message) :
        \/ message[i] = keyword
        \/ message[i] \in DOMAIN LowerOf /\ LowerOf[message[i]] = keyword

HasSomeKeyword(message, kind) ==
    \E keyword \in KeywordsOf(kind) : HasKeyword(message, keyword)

\* The message matches the rule of the kind whichever way rule 4 combines
\* its keywords.
SurelyMatches(message, kind) ==
    IF kind = "MODEL_ERROR"
    THEN /\ HasKeyword(message, "model")
         /\ HasKeyword(message, "404") \/ HasKeyword(message, "not found")
    ELSE HasSomeKeyword(message, kind)

\* The same words in the other letter case.
SwapCase(message) ==
    [i \in 1..Len(message) |->
        IF message[i] \in DOMAIN LowerOf THEN LowerOf[message[i]]
        ELSE IF \E w \in DOMAIN LowerOf : LowerOf[w] = message[i]
             THEN CHOOSE w \in DOMAIN LowerOf : LowerOf[w] = message[i]
             ELSE message[i]]

\* C11: the result of parseAPIError is not retryable exactly when its kind
\* is AUTH_ERROR, MODEL_ERROR or CONTEXT_LENGTH; every other kind, the
\* default without a code included, is retryable.
C11_NonRetryableKinds ==
    Parsed =>
        /\ apiError.code \in { KindOrder[i] : i \in 1..Len(KindOrder) }
        /\ apiError.retryable = FALSE <=>
              apiError.code \in {"AUTH_ERROR", "MODEL_ERROR", "CONTEXT_LENGTH"}

\* A two-word message with a keyword of a retryable and of a non-retryable
\* rule, classified by the non-retryable one.
C11_Witness ==
    /\ Parsed /\ thrownValue.message = <<"Timeout", "401">>
    /\ apiError.code = "AUTH_ERROR" /\ ~apiError.retryable

C13_ModelErrorNeedsBothKeywords ==
    (Parsed /\ apiError.code = "MODEL_ERROR") =>
        /\ HasKeyword(thrownValue.message, "model")
        /\ \/ HasKeyword(thrownValue.message, "404")
           \/ HasKeyword(thrownValue.message, "not found")

(***************************************************************************)
(* Claims about the catalog GET builds from an answer of the gateway.      *)
(***************************************************************************)
Merged == uniqueModels # <<>>

\* The merged list before de-duplication: the built-in models, then the
\* models of the gateway.
MergeOrder == AVAILABLE_MODELS \o transformAll(gatewayData)

FirstWithId(list, id) == list[CHOOSE i \in 1..Len(list) :
                                 /\ list[i].id = id
                                 /\ \A j \in 1..(i - 1) : list[j].id # id]

\* C14: every entry of the catalog is the first entry with its id in merge
\* order, so every built-in descriptor is in the catalog as it is.
C14_FirstInMergeOrderIsKept ==
    Merged =>
        \A k \in 1..Len(uniqueModels) :
            uniqueModels[k] = FirstWithId(MergeOrder, uniqueModels[k].id)

\* C15: the ids of the catalog are the ids of the built-in list and of the
\* gateway list, and no two entries of the catalog have the same id.
C15_OneEntryPerId ==
    Merged =>
        /\ Ids(uniqueModels) = Ids(AVAILABLE_MODELS) \cup Ids(gatewayData)
        /\ \A i, j \in 1..Len(uniqueModels) :
              uniqueModels[i].id = uniqueModels[j].id => i = j

\* The gateway answered with the id of a built-in model twice and one more
\* model: the catalog has the seven built-in ids and the other one.
C15_Witness ==
    /\ Merged
    /\ Len(gatewayData) = 3
    /\ gatewayData[1].id = "gpt-4" /\ gatewayData[2].id = "mistral-7b"
    /\ gatewayData[3].id = "gpt-4"
    /\ Len(uniqueModels) = Len(AVAILABLE_MODELS) + 1

\* Adjacent entries of the catalog are in order of (provider, name).
CatalogSorted ==
    \A k \in 1..(Len(uniqueModels) - 1) :
        compareModels(uniqueModels[k], uniqueModels[k + 1]) <= 0

AsSet(list) == { list[i] : i \in 1..Len(list) }

\* C16: the catalog is in non-decreasing order of (provider, name), and every
\* answer of the gateway with the same set of models gives the same catalog.
C16_SortedAndSameOrderForSameSet ==
    Merged =>
        /\ CatalogSorted
        /\ \A other \in SeqsUpTo(GatewayModels, MaxGatewayModels) :
              AsSet(other) = AsSet(gatewayData) =>
                  GetResponse(transformAll(other)) = uniqueModels

(***************************************************************************)
(* Further claims about the stream consumers.                              *)
(***************************************************************************)
\* The read loop was entered and has been left.
LoopLeft == assistantMessageId # 0 /\ cpc \in {"done", "failed"}

\* C17: once the read loop is left, by done or by a failed read, the content
\* of the assistant message is the text accumulated; and in every step the
\* content of the message being streamed and the accumulator only grow at
\* their end.
C17_PartialTextIsKept ==
    /\ [](LoopLeft => StreamedContent = assistantMessage)
    /\ [][/\ IsPrefixOf(assistantMessage, assistantMessage')
          /\ assistantMessageId # 0 =>
                /\ assistantMessageId' = assistantMessageId
                /\ IsPrefixOf(StreamedContent,
                              chatMessages'[assistantMessageId].content)]_vars

\* A read failed after one delta had been written and before the route had
\* enqueued its [DONE]: the message holds that delta.
C17_Witness ==
    /\ variant = "sse" /\ cpc = "failed" /\ assistantMessageId # 0
    /\ ~closed /\ "done" \notin { sentFrames[i] : i \in 1..Len(sentFrames) }
    /\ assistantMessage = <<"H">> /\ StreamedContent = <<"H">>

(***************************************************************************)
(* Claims about the read loop on lines it cannot use.                      *)
(***************************************************************************)
RECURSIVE UsableText(_)
\* The deltas of the usable lines among some lines, in order.
UsableText(frames) ==
    IF frames = <<>> THEN <<>>
    ELSE (IF Head(frames).usable THEN Head(frames).delta ELSE <<>>)
             \o UsableText(Tail(frames))

\* C18: whatever lines were read, the accumulator and the message content
\* are the deltas of the usable lines read, in order: a data: line whose
\* payload is not valid JSON and a line with another prefix add nothing,
\* and the usable lines after them are appended.
C18_UnusableLinesAreSkipped ==
    /\ reassembled.acc = UsableText(framesRead)
    /\ reassembled.content = reassembled.acc
    /\ Len(reassembled.updates) =
          Cardinality({ i \in 1..Len(framesRead) : framesRead[i].usable })

\* A stream of data: frames read to its end, with a frame of truncated JSON
\* between two content frames: the text is that of the two content frames.
C18_Witness ==
    /\ frameVariant = "sse" /\ framesLeft = <<>> /\ Len(framesRead) = 3
    /\ framesRead[2].text = DataPrefix \o ContentOpen \o <<"H">>
    /\ framesRead[1].usable /\ framesRead[3].usable
    /\ reassembled.acc = <<"H", QUOTE, NL>>

(***************************************************************************)
(* Claims about the route's handling of the provider's stream.             *)
(***************************************************************************)
RECURSIVE TextDeltasOf(_)
\* The texts of the text deltas among some chunks that are not empty.
TextDeltasOf(chunks) ==
    IF chunks = <<>> THEN <<>>
    ELSE (IF Head(chunks).type = "text" /\ Head(chunks).text # <<>>
          THEN <<Head(chunks).text>> ELSE <<>>) \o TextDeltasOf(Tail(chunks))

RECURSIVE ContentFrames(_)
ContentFrames(texts) ==
    IF texts = <<>> THEN <<>>
    ELSE ContentFrame(Head(texts)) \o ContentFrames(Tail(texts))

Anthropic == variant = "sse" /\ request.provider = "anthropic"

\* C19: for an Anthropic request, the content frames the route has enqueued
\* are those of the text deltas its stream has yielded, in order, and
\* nothing else precedes them on the response; taking a chunk off the
\* stream, of whatever type, raises no error; and when the consumer has
\* read the response to its end, the frames having arrived whole, its text
\* and the message content are the concatenation of these text deltas.
C19_AnthropicTextDeltasOnly ==
    /\ [](Anthropic =>
            /\ sentDeltas = TextDeltasOf(yielded)
            /\ startsWith(delivered \o wire, ContentFrames(sentDeltas))
            /\ (cpc = "done" /\ ~cutMidLine) =>
                  /\ assistantMessage = Concat(TextDeltasOf(yielded))
                  /\ StreamedContent = assistantMessage)
    /\ [][(Anthropic /\ yielded' # yielded) => routeError' = routeError]_vars

\* An Anthropic stream of a text delta and a delta that is not text, read to
\* its end: the message is the text delta.
C19_Witness ==
    /\ Anthropic /\ cpc = "done" /\ ~cutMidLine /\ routeError = NoError
    /\ yielded = <<[type |-> "text", text |-> <<"H">>],
                   [type |-> "json", text |-> <<"H">>]>>
    /\ StreamedContent = <<"H">>

\* C20: once the consumer has abandoned the stream, the read loop reads
\* nothing more and writes nothing more to the message.
C20_AbandonStopsTheReadLoop ==
    [][abandoned => (delivered' = delivered /\ updates' = updates)]_vars

(***************************************************************************)
(* The chat store and the chat view: chats, messages, sending and          *)
(* regenerating while the user goes on using the page.                     *)
(***************************************************************************)
\* The number of chats, of messages in a chat when a send may start, and of
\* text lines in a response.
MaxChats == 2
MaxMessages == 3
MaxDeltas == 2
\* The number of ids generateId hands out at most.
MaxIds == 6

\* settings.defaultModel and settings.defaultProvider of the store.
DefaultModel == "claude-3-5-sonnet-20241022"
DefaultProvider == "anthropic"

\* The model ids the user picks in the model selector.
ModelChoices == {"gpt-4", "claude-3-opus-20240229"}

\* What find() gives when no chat has the id.
NoChat == [id |-> 0, model |-> "none", provider |-> "none", messages |-> <<>>]

\* state.chats.find((c) => c.id === id) || null
ChatWithId(cs, id) ==
    IF \E i \in 1..Len(cs) : cs[i].id = id
    THEN cs[CHOOSE i \in 1..Len(cs) : cs[i].id = id]
    ELSE NoChat

getCurrentChat(cs, current) == ChatWithId(cs, current)

\* createChat(): the new chat is put in front and made current by the caller.
createChat(cs, id) ==
    <<[id |-> id, model |-> DefaultModel, provider |-> DefaultProvider,
       messages |-> <<>>]>> \o cs

addMessage(cs, chatId, message) ==
    [i \in 1..Len(cs) |->
        IF cs[i].id = chatId
        THEN [cs[i] EXCEPT !.messages = Append(@, message)]
        ELSE cs[i]]

updateMessage(cs, chatId, messageId, content) ==
    [i \in 1..Len(cs) |->
        IF cs[i].id = chatId
        THEN [cs[i] EXCEPT !.messages =
                 [j \in 1..Len(@) |->
                     IF @[j].id = messageId THEN [@[j] EXCEPT !.content = content]
                     ELSE @[j]]]
        ELSE cs[i]]

deleteMessage(cs, chatId, messageId) ==
    [i \in 1..Len(cs) |->
        IF cs[i].id = chatId
        THEN [cs[i] EXCEPT !.messages =
                 LET Keep(m) == m.id # messageId IN SelectSeq(@, Keep)]
        ELSE cs[i]]

\* The setState call of handleModelChange.
setModel(cs, chatId, model) ==
    [i \in 1..Len(cs) |->
        IF cs[i].id = chatId
        THEN [cs[i] EXCEPT !.model = model.id, !.provider = model.provider]
        ELSE cs[i]]

\* The id of the last message of a chat, or 0 (null).
LastMessageId(chat) ==
    IF chat.id # 0 /\ Len(chat.messages) > 0
    THEN chat.messages[Len(chat.messages)].id
    ELSE 0

\* The response of a request arrives ok: the empty assistant message is
\* added to the chat of the request, and the id to write to is read from the
\* last message of the chat that is current now.
ResponseArrives(req) ==
    LET added == addMessage(chats, req.chatId,
                            [id |-> nextId + 1, role |-> "assistant",
                             content |-> <<>>, provider |-> req.provider])
    IN [chats |-> added,
        req |-> [req EXCEPT !.pc = "reading", !.own = nextId + 1,
                            !.assistantMessageId =
                                LastMessageId(getCurrentChat(added, currentChatId))]]

\* One 0: line of the response is read: the text is appended to the
\* accumulator and written to the message with the id read before.
LineArrives(req, text) ==
    LET acc == Append(req.assistantMessage, text)
    IN [chats |-> IF req.assistantMessageId # 0
                  THEN updateMessage(chats, req.chatId, req.assistantMessageId, acc)
                  ELSE chats,
        req |-> [req EXCEPT !.assistantMessage = acc, !.left = @ - 1]]

ChatsInit ==
    /\ ChatsAtRest
    /\ HttpAtRest
    /\ RetryAtRest
    /\ StreamAtRest
    /\ CatalogAtRest
    /\ ClassifyAtRest
    /\ MergeAtRest
    /\ FramesAtRest

\* The sidebar's button: createChat() and setCurrentChat(newChatId).
NewChat ==
    /\ Len(chats) < MaxChats /\ nextId < MaxIds
    /\ chats' = createChat(chats, nextId + 1)
    /\ currentChatId' = nextId + 1
    /\ nextId' = nextId + 1
    /\ UNCHANGED <<isLoading, submitReq, regenReq>>
    /\ UNCHANGED nonChatVars

\* The user clicks another chat in the sidebar: setCurrentChat(chat.id).
SelectChat ==
    /\ \E i \in 1..Len(chats) :
        /\ chats[i].id # currentChatId
        /\ currentChatId' = chats[i].id
    /\ UNCHANGED <<chats, nextId, isLoading, submitReq, regenReq>>
    /\ UNCHANGED nonChatVars

\* ModelSelector.handleModelChange(modelId).
ModelChange ==
    /\ currentChatId # 0
    /\ \E modelId \in ModelChoices :
        /\ \E k \in 1..Len(availableModels) : availableModels[k].id = modelId
        /\ LET model == availableModels[CHOOSE k \in 1..Len(availableModels) :
                                           availableModels[k].id = modelId]
           IN /\ chats' = setModel(chats, currentChatId, model)
              /\ chats' # chats
    /\ UNCHANGED <<currentChatId, nextId, isLoading, submitReq, regenReq>>
    /\ UNCHANGED nonChatVars

\* handleSubmit up to the fetch: the chat is created when there is none, the
\* user message is added, isLoading is set and the request is sent.
SubmitBegins ==
    /\ ~isLoading /\ submitReq.pc # "fetching" /\ submitReq.pc # "reading"
    /\ nextId + 3 <= MaxIds
    /\ IF currentChatId = 0 THEN Len(chats) < MaxChats
       ELSE Len(getCurrentChat(chats, currentChatId).messages) < MaxMessages
    /\ LET currentChat == getCurrentChat(chats, currentChatId)
           created == currentChatId = 0
           chatId == IF created THEN nextId + 1 ELSE currentChatId
           messageId == IF created THEN nextId + 2 ELSE nextId + 1
           before == IF created THEN createChat(chats, chatId) ELSE chats
       IN /\ chats' = addMessage(before, chatId,
                                 [id |-> messageId, role |-> "user",
                                  content |-> <<"hi">>,
                                  provider |-> currentChat.provider])
          /\ currentChatId' = chatId
          /\ nextId' = messageId
          /\ \E n \in 1..MaxDeltas :
              submitReq' = [NoRequest EXCEPT !.pc = "fetching", !.chatId = chatId,
                                             !.provider = currentChat.provider,
                                             !.left = n]
    /\ isLoading' = TRUE
    /\ UNCHANGED regenReq
    /\ UNCHANGED nonChatVars

\* The fetch of handleSubmit rejects or its response is not ok: the catch
\* block adds an error message when the error is not retryable, and the
\* finally block resets isLoading.
SubmitFails ==
    /\ submitReq.pc = "fetching"
    /\ \E error \in { [id |-> 2, isError |-> TRUE, message |-> <<"Failed to", "fetch">>],
                      [id |-> 3, isError |-> TRUE, message |-> <<"Failed to get response">>] } :
        IF ~parseAPIError(error).retryable
        THEN /\ chats' = addMessage(chats, submitReq.chatId,
                                    [id |-> nextId + 1, role |-> "assistant",
                                     content |-> <<"Error: ">> \o parseAPIError(error).message,
                                     provider |-> submitReq.provider])
             /\ nextId' = nextId + 1
        ELSE UNCHANGED <<chats, nextId>>
    /\ submitReq' = [submitReq EXCEPT !.pc = "failed"]
    /\ isLoading' = FALSE
    /\ UNCHANGED <<currentChatId, regenReq>>
    /\ UNCHANGED nonChatVars

\* The fetch of handleSubmit resolves with an ok response.
SubmitResponse ==
    /\ submitReq.pc = "fetching"
    /\ chats' = ResponseArrives(submitReq).chats
    /\ submitReq' = ResponseArrives(submitReq).req
    /\ nextId' = nextId + 1
    /\ UNCHANGED <<currentChatId, isLoading, regenReq>>
    /\ UNCHANGED nonChatVars

\* One turn of handleSubmit's read loop with one 0: line.
SubmitLine ==
    /\ submitReq.pc = "reading" /\ submitReq.left > 0
    /\ chats' = LineArrives(submitReq, "s").chats
    /\ submitReq' = LineArrives(submitReq, "s").req
    /\ UNCHANGED <<currentChatId, nextId, isLoading, regenReq>>
    /\ UNCHANGED nonChatVars

\* reader.read() reports done: handleSubmit ends through its finally block.
SubmitDone ==
    /\ submitReq.pc = "reading" /\ submitReq.left = 0
    /\ submitReq' = [submitReq EXCEPT !.pc = "done"]
    /\ isLoading' = FALSE
    /\ UNCHANGED <<chats, currentChatId, nextId, regenReq>>
    /\ UNCHANGED nonChatVars

\* handleRegenerateResponse(messageId) up to the fetch, on an assistant
\* message of the current chat that follows a user message: the old
\* response is deleted and the request is sent.
RegenerateBegins ==
    /\ regenReq.pc # "fetching" /\ regenReq.pc # "reading"
    /\ nextId < MaxIds
    /\ currentChatId # 0
    /\ LET currentChat == getCurrentChat(chats, currentChatId) IN
        /\ currentChat.id # 0
        /\ \E j \in 1..Len(currentChat.messages) :
            /\ currentChat.messages[j].role = "assistant"
            /\ \E u \in 1..(j - 1) : currentChat.messages[u].role = "user"
            /\ chats' = deleteMessage(chats, currentChatId, currentChat.messages[j].id)
        /\ \E n \in 1..MaxDeltas :
            regenReq' = [NoRequest EXCEPT !.pc = "fetching", !.chatId = currentChatId,
                                          !.provider = currentChat.provider,
                                          !.left = n]
    /\ UNCHANGED <<currentChatId, nextId, isLoading, submitReq>>
    /\ UNCHANGED nonChatVars

\* The fetch of handleRegenerateResponse rejects or its response is not ok:
\* the catch block only shows a toast.
RegenerateFails ==
    /\ regenReq.pc = "fetching"
    /\ regenReq' = [regenReq EXCEPT !.pc = "failed"]
    /\ UNCHANGED <<chats, currentChatId, nextId, isLoading, submitReq>>
    /\ UNCHANGED nonChatVars

\* The fetch of handleRegenerateResponse resolves with an ok response.
RegenerateResponse ==
    /\ regenReq.pc = "fetching"
    /\ chats' = ResponseArrives(regenReq).chats
    /\ regenReq' = ResponseArrives(regenReq).req
    /\ nextId' = nextId + 1
    /\ UNCHANGED <<currentChatId, isLoading, submitReq>>
    /\ UNCHANGED nonChatVars

\* One turn of handleRegenerateResponse's read loop with one 0: line.
RegenerateLine ==
    /\ regenReq.pc = "reading" /\ regenReq.left > 0
    /\ chats' = LineArrives(regenReq, "r").chats
    /\ regenReq' = LineArrives(regenReq, "r").req
    /\ UNCHANGED <<currentChatId, nextId, isLoading, submitReq>>
    /\ UNCHANGED nonChatVars

\* reader.read() reports done in handleRegenerateResponse.
RegenerateDone ==
    /\ regenReq.pc = "reading" /\ regenReq.left = 0
    /\ regenReq' = [regenReq EXCEPT !.pc = "done"]
    /\ UNCHANGED <<chats, currentChatId, nextId, isLoading, submitReq>>
    /\ UNCHANGED nonChatVars

ChatsNext ==
    \/ NewChat \/ SelectChat \/ ModelChange
    \/ SubmitBegins \/ SubmitFails \/ SubmitResponse \/ SubmitLine \/ SubmitDone
    \/ RegenerateBegins \/ RegenerateFails \/ RegenerateResponse
    \/ RegenerateLine \/ RegenerateDone

SpecChats == ChatsInit /\ [][ChatsNext]_vars

(***************************************************************************)
(* HTTPClient.request: one call, its timeout timer and the caller's        *)
(* abort signal.                                                           *)
(***************************************************************************)
\* The time the model lets pass in a call that does not complete, in ms.
MaxElapsed == 40000

\* The steps in which time passes, in ms.
HttpClockSteps == {10000}

\* The timeouts a caller passes in the options, besides leaving the default.
TimeoutOptions == {10000}

\* The statuses the gateway answers with.
Statuses == {200, 401, 403, 404, 429, 500, 503, 418}

\* The error code in the body of an error response ("": the body has none,
\* or is not JSON).
ErrorBodyCodes == {"", "budget_exceeded"}

\* What fetch or response.json() rejects with, other than an abort: the name
\* of the error and whether its message includes 'fetch' or 'network'.
Rejections ==
    { [isError |-> TRUE, name |-> "TypeError", network |-> TRUE],
      [isError |-> TRUE, name |-> "SyntaxError", network |-> FALSE],
      [isError |-> FALSE, name |-> "", network |-> FALSE] }

\* The rejection of a fetch whose signal aborts.
AbortError == [isError |-> TRUE, name |-> "AbortError", network |-> FALSE]

Rejected(code, retryable) == [kind |-> "rejected", code |-> code, retryable |-> retryable]

HttpCode(responseStatus) ==
    CASE responseStatus = 401 -> "HTTP_401" [] responseStatus = 403 -> "HTTP_403"
      [] responseStatus = 404 -> "HTTP_404" [] responseStatus = 429 -> "HTTP_429"
      [] responseStatus = 500 -> "HTTP_500" [] responseStatus = 503 -> "HTTP_503"
      [] OTHER -> "HTTP_other"

\* parseError(response): the code of the error body or HTTP_<responseStatus>, and
\* the retryable flag from the status.
parseError(responseStatus, bodyCode) ==
    Rejected(IF bodyCode # "" THEN bodyCode ELSE HttpCode(responseStatus),
             CASE responseStatus \in {401, 403, 404} -> FALSE
               [] responseStatus \in {429, 500, 502, 503, 504} -> TRUE
               [] OTHER -> responseStatus >= 500)

\* createError(error)
createError(error) ==
    IF error.isError
    THEN IF error.name = "AbortError" THEN Rejected("TIMEOUT", TRUE)
         ELSE IF error.network THEN Rejected("NETWORK_ERROR", TRUE)
         ELSE Rejected("UNKNOWN_ERROR", FALSE)
    ELSE Rejected("UNKNOWN_ERROR", FALSE)

\* The call is awaiting fetch or response.json().
HttpPending == hpc \in {"fetching", "body"}

\* fetch is given the caller's signal when there is one, else the signal of
\* the timeout's controller: signal || controller.signal.
FetchSignalIsControllers == ~hasSignal

HttpInit ==
    /\ hasSignal \in BOOLEAN
    /\ timeout \in {defaultTimeout} \cup TimeoutOptions
    /\ HttpIdle
    /\ ChatsAtRest
    /\ RetryAtRest
    /\ StreamAtRest
    /\ CatalogAtRest
    /\ ClassifyAtRest
    /\ MergeAtRest
    /\ FramesAtRest

\* request() up to the await of fetch: the controller is created, the
\* timer set and the request sent.
RequestStart ==
    /\ hpc = "idle"
    /\ hpc' = "fetching" /\ timerArmed' = TRUE
    /\ UNCHANGED <<hasSignal, timeout, elapsed, aborted, deadlinePassed, httpResult>>
    /\ UNCHANGED nonHttpVars

\* fetch resolves with the response (status line and headers): the timer is
\* cleared; a response that is not ok is thrown as the error parseError
\* builds, an ok response has its body read.
FetchResolved ==
    /\ hpc = "fetching"
    /\ timerArmed' = FALSE
    /\ \E responseStatus \in Statuses, bodyCode \in ErrorBodyCodes :
        IF responseStatus = 200
        THEN bodyCode = "" /\ hpc' = "body" /\ UNCHANGED httpResult
        ELSE hpc' = "rejected" /\ httpResult' = parseError(responseStatus, bodyCode)
    /\ UNCHANGED <<hasSignal, timeout, elapsed, aborted, deadlinePassed>>
    /\ UNCHANGED nonHttpVars

\* fetch or response.json() rejects with something that is not an abort:
\* the catch block clears the timer and throws what createError builds.
AwaitRejected ==
    /\ HttpPending
    /\ \E error \in Rejections :
        /\ (error.name = "SyntaxError") => hpc = "body"
        /\ httpResult' = createError(error)
    /\ hpc' = "rejected" /\ timerArmed' = FALSE
    /\ UNCHANGED <<hasSignal, timeout, elapsed, aborted, deadlinePassed>>
    /\ UNCHANGED nonHttpVars

\* response.json() resolves: request() returns data, responseStatus and headers.
BodyRead ==
    /\ hpc = "body"
    /\ hpc' = "resolved"
    /\ httpResult' = [kind |-> "resolved", code |-> "OK", retryable |-> FALSE]
    /\ UNCHANGED <<hasSignal, timeout, elapsed, timerArmed, aborted, deadlinePassed>>
    /\ UNCHANGED nonHttpVars

\* The caller aborts its own signal while the call is pending: the await
\* rejects with an AbortError.
CallerAborts ==
    /\ hasSignal /\ HttpPending
    /\ httpResult' = createError(AbortError)
    /\ hpc' = "rejected" /\ timerArmed' = FALSE
    /\ UNCHANGED <<hasSignal, timeout, elapsed, aborted, deadlinePassed>>
    /\ UNCHANGED nonHttpVars

\* Time passes while the call is pending.
HttpTick ==
    /\ HttpPending /\ elapsed < MaxElapsed
    /\ elapsed < timeout \/ deadlinePassed
    /\ \E step \in HttpClockSteps : elapsed' = elapsed + step
    /\ UNCHANGED <<hpc, hasSignal, timeout, timerArmed, aborted, deadlinePassed,
                   httpResult>>
    /\ UNCHANGED nonHttpVars

\* The timeout elapses while the call is pending.  A timer that is still
\* set runs its callback, controller.abort(); a fetch listening to the
\* controller's signal then rejects with an AbortError.
TimeoutElapses ==
    /\ HttpPending /\ elapsed >= timeout /\ ~deadlinePassed
    /\ deadlinePassed' = TRUE
    /\ IF timerArmed
       THEN /\ aborted' = TRUE /\ timerArmed' = FALSE
            /\ IF FetchSignalIsControllers /\ hpc = "fetching"
               THEN hpc' = "rejected" /\ httpResult' = createError(AbortError)
               ELSE UNCHANGED <<hpc, httpResult>>
       ELSE UNCHANGED <<aborted, timerArmed, hpc, httpResult>>
    /\ UNCHANGED <<hasSignal, timeout, elapsed>>
    /\ UNCHANGED nonHttpVars

HttpNext ==
    \/ RequestStart \/ FetchResolved \/ AwaitRejected \/ BodyRead
    \/ CallerAborts \/ HttpTick \/ TimeoutElapses

SpecHttp == HttpInit /\ [][HttpNext]_vars

\* The waits of a call made with the default options.
DefaultWaits == <<1000, 2000, 4000>>

DefaultOptions == maxRetries = 3 /\ initialDelay = 1000 /\ maxDelay = 10000

\* C21: the i-th wait (after the failed attempt i - 1) lasts
\* min(initialDelay * 2^(i-1), maxDelay) ms; with the default options the
\* waits are 1000, 2000, 4000 in this order; no wait is shorter than the one
\* before it and none is longer than maxDelay.
C21_WaitsDoubleUpToMaxDelay ==
    /\ \A i \in 1..Len(waits) :
        /\ waits[i] = (IF initialDelay * (2 ^ (i - 1)) <= maxDelay
                       THEN initialDelay * (2 ^ (i - 1)) ELSE maxDelay)
        /\ waits[i] <= maxDelay
        /\ i > 1 => waits[i - 1] <= waits[i]
    /\ DefaultOptions =>
        /\ Len(waits) <= Len(DefaultWaits)
        /\ waits = SubSeq(DefaultWaits, 1, Len(waits))

C21_Witness ==
    /\ DefaultOptions /\ waits = DefaultWaits
    /\ rpc = "rejected" /\ Len(fnLog) = 4

\* A run whose third wait is cut to maxDelay.
C21_WitnessCapped ==
    maxDelay = 3000 /\ waits = <<1000, 2000, 3000>>

\* The waits and the onRetry calls made so far, against the attempts made.
WaitsAndObserverCalls ==
    /\ Len(waits) <= maxRetries
    /\ Len(waits) = attempt + (IF rpc = "waiting" THEN 1 ELSE 0)
    /\ rpc = "waiting" => attempt < maxRetries
    /\ Len(onRetryLog) = (IF hasOnRetry THEN Len(waits) ELSE 0)
    /\ \A i \in 1..Len(onRetryLog) :
        /\ ~fnLog[i].ok
        /\ onRetryLog[i] = <<i, fnLog[i].error>>

\* C22: a wait is pending only after the failure of an attempt that is not the
\* final one; the failure of the final attempt adds neither a wait nor an
\* onRetry call; there are never more than maxRetries waits; and when the
\* observer is given, the i-th wait starts only after the i-th onRetry call,
\* whose arguments are i and the error object the attempt i - 1 failed with.
C22_WaitsOnlyBetweenAttempts ==
    /\ [](WaitsAndObserverCalls)
    /\ [][(rpc = "awaiting" /\ attempt = maxRetries) =>
            (waits' = waits /\ onRetryLog' = onRetryLog /\ rpc' # "waiting")]_vars

C22_Witness ==
    /\ hasOnRetry /\ maxRetries = 2 /\ rpc = "rejected" /\ attempt = 2
    /\ Len(fnLog) = 3 /\ Len(waits) = 2 /\ Len(onRetryLog) = 2
    /\ onRetryLog[2] = <<2, fnLog[2].error>>

\* C26: when the call number k + 1 of fn (k <= maxRetries) succeeds after k
\* retryable failures, retryWithBackoff has resolved with the value of that
\* call, and fn has been called k + 1 times, in this state and ever after.
C26_SuccessAfterFailuresResolves ==
    \A n \in 1..Len(fnLog) :
        (fnLog[n].ok /\ \A i \in 1..(n - 1) : RetryableFailure(fnLog[i])) =>
            /\ n <= maxRetries + 1
            /\ rpc = "resolved"
            /\ retryResult.kind = "resolved"
            /\ retryResult.value = fnLog[n].value
            /\ Len(fnLog) = n
            /\ FnCalls = n

C26_Witness ==
    /\ rpc = "resolved" /\ Len(fnLog) = 3 /\ fnLog[3].ok
    /\ RetryableFailure(fnLog[1]) /\ RetryableFailure(fnLog[2])
    /\ retryResult.value = fnLog[3].value

\* The positions of the frames of one kind in the response of the route.
FramesOfKind(kind) == { i \in 1..Len(sentFrames) : sentFrames[i] = kind }

\* The route has finished answering a request it accepted with status 200.
RouteAnswered == variant = "sse" /\ status = 200 /\ spc = "closed"

\* The frames sent so far, against the state of the route.
ResponseWellFormed ==
    /\ RouteAnswered =>
        /\ closed
        /\ Cardinality(FramesOfKind("done")) = 1
        /\ sentFrames[Len(sentFrames)] = "done"
        /\ Cardinality(FramesOfKind("error")) =
               (IF routeError = NoError THEN 0 ELSE 1)
    /\ variant = "sse" => ((FramesOfKind("done") # {}) <=> closed)
    /\ (variant = "sse" /\ routeError # NoError) =>
        /\ FramesOfKind("error") # {}
        /\ spc \in {"finally", "closed"}
    /\ \A i \in FramesOfKind("error") \cup FramesOfKind("done") :
        \A j \in FramesOfKind("content") : j < i
    /\ \A i \in FramesOfKind("error") : \A j \in FramesOfKind("done") : i < j

\* C27: a response of the route that has ended holds exactly one [DONE]
\* frame, which is its last frame, and the stream is closed; a [DONE] frame
\* is never sent without closing, and nothing is sent after it. When the
\* provider call threw, exactly one error frame was sent, just before the
\* [DONE] frame; when it did not throw, no error frame was sent. No content
\* frame follows an error frame or the [DONE] frame.
C27_ResponseEndsWithOneDone ==
    /\ [](ResponseWellFormed)
    /\ [][(variant = "sse" /\ closed) =>
            (sentFrames' = sentFrames /\ sentDeltas' = sentDeltas /\ closed')]_vars

\* The provider threw after a content frame was sent.
C27_Witness ==
    /\ RouteAnswered /\ routeError # NoError
    /\ sentFrames = <<"content", "error", "done">>

\* The provider's stream ended without a failure.
C27_WitnessSuccess ==
    /\ RouteAnswered /\ routeError = NoError
    /\ sentFrames = <<"content", "content", "done">>

\* The line is the [DONE] sentinel of its protocol.
IsSentinel(frame) == frame.text \in {DataPrefix \o DoneData, LinePrefix \o DoneData}

\* The accumulator after the first n lines read.
AccAfter(n) ==
    ProcessChunk(frameVariant, NothingRead,
                 BytesOf(SubSeq(framesRead, 1, n)), TRUE).acc

\* C23: once a [DONE] sentinel has been read, the accumulator and the message
\* content are what they were when the sentinel was reached: the sentinel
\* itself added nothing and no line read after it changed them.
C23_DoneEndsTheMessage ==
    \A i \in 1..Len(framesRead) :
        IsSentinel(framesRead[i]) =>
            /\ reassembled.acc = AccAfter(i - 1)
            /\ reassembled.content = AccAfter(i - 1)

\* C24: when the gateway fetch of a handler (the manual refresh or a later
\* listing) fails after some gateway fetch has succeeded, the handler's
\* fetchModels call returns the models of the latest successful fetch.
C24_FailedRefreshKeepsLastGoodList ==
    [][\A h \in 1..NHandlers :
          (/\ handlers[h].pc = "fetching"
           /\ handlers'[h].pc = "done"
           /\ handlers'[h].outcome = "failed"
           /\ ~lastFetched.isNull) =>
              handlers'[h].fm = lastFetched.list]_vars

\* C28: when a gateway fetch completes successfully, the cache timestamp does
\* not decrease, and a fetch that started before the one whose result is
\* cached leaves the cached list as it is.
C28_CacheNeverMovesBackwards ==
    [][\A h \in 1..NHandlers :
          (/\ handlers[h].pc = "fetching"
           /\ handlers'[h].pc = "done"
           /\ handlers'[h].outcome = "fetched") =>
              /\ cacheTimestamp' >= cacheTimestamp
              /\ handlers[h].now < cacheTimestamp => cachedModels' = cachedModels]_vars

\* C25: no step changes the provider of a chat that exists before and after
\* it, nor the provider of a message that exists before and after it.
C25_ProviderNeverChanges ==
    [][\A i \in 1..Len(chats), j \in 1..Len(chats') :
          chats[i].id = chats'[j].id =>
              /\ chats'[j].provider = chats[i].provider
              /\ \A m \in 1..Len(chats[i].messages), n \in 1..Len(chats'[j].messages) :
                    chats[i].messages[m].id = chats'[j].messages[n].id =>
                        chats'[j].messages[n].provider = chats[i].messages[m].provider]_vars

\* The content of the message with the given id in the given chat, or
\* <<"absent">> when the chat has no such message.
ContentOf(chatId, messageId) ==
    LET chat == ChatWithId(chats, chatId)
        at == { n \in 1..Len(chat.messages) : chat.messages[n].id = messageId }
    IN IF at = {} THEN <<"absent">> ELSE chat.messages[CHOOSE n \in at : TRUE].content

\* The text read so far for a request is the content of the assistant
\* message added for it, as long as that message has not been deleted.
TextIsInOwnMessage(req) ==
    (req.pc \in {"reading", "done"} /\ ContentOf(req.chatId, req.own) # <<"absent">>) =>
        ContentOf(req.chatId, req.own) = req.assistantMessage

\* C29: whatever the user did while a send or a regeneration was awaited,
\* the text streamed for it is in the assistant message created for it, in
\* the chat it was sent from.
C29_TextGoesToOwnMessage ==
    TextIsInOwnMessage(submitReq) /\ TextIsInOwnMessage(regenReq)

\* C30: a call that was still pending when its timeout elapsed has been
\* rejected with the retryable TIMEOUT error, whether or not the caller
\* passed a signal; and no timer is left set once the call has ended.
C30_TimeoutAbortsAndClearsTimer ==
    /\ deadlinePassed =>
        /\ hpc = "rejected"
        /\ httpResult = Rejected("TIMEOUT", TRUE)
    /\ hpc \in {"resolved", "rejected"} => ~timerArmed

====
